---- MODULE Spec2Model ----
(***************************************************************************)
(* Model of the form-filling engine of SeleniumAutomation:                 *)
(*   src/form_interaction.py  FormInteraction (process_form,               *)
(*                            handle_dropdown, handle_privacy_field,       *)
(*                            select_checkbox_by_xpath)                    *)
(* Python strings are TLA+ strings; Python dicts, whose iteration order is *)
(* insertion order, are sequences of records.                              *)
(***************************************************************************)
EXTENDS Integers, Sequences, FiniteSets, TLC

VARIABLES
  user_data,      \* the profile: sequence of [key, value] in insertion order
  field_name,     \* resolver harness: the field name being resolved
  mode,           \* resolver harness: "idle" | "declared" | "additional"
  user_value,     \* resolver harness: the value the resolution produced
  control,        \* dropdown harness: the element handed to handle_dropdown
  desired,        \* dropdown harness: the value to select
  raising,        \* dropdown harness: call sites at which the driver raises
  dd,             \* dropdown harness: what handle_dropdown did
  dd_pc,          \* dropdown harness: "off" | "call" | "done"
  entry,          \* process_form: the form entry [fields, additional_fields]
  pc,             \* process_form: "off" | "declared" | "additional" | "privacy" | "done"
  i,              \* process_form: index of the field the current loop is at
  filled_fields,  \* process_form: names appended to filled_fields
  outcomes,       \* process_form: one record per field that was processed
  driver_log,     \* process_form: driver operations, in the order performed
  privacy_calls,  \* process_form: results of the handle_privacy_field calls
  result,         \* process_form: "none" until it returns "True" or "False"
  cb_in,          \* checkbox harness: what the page does during the call
  cb_out,         \* checkbox harness: what select_checkbox_by_xpath did
  cb_pc,          \* checkbox harness: "off" | "call" | "done"
  pv_in,          \* consent harness: what the page does during the call
  pv_out,         \* consent harness: what handle_privacy_field did
  pv_pc,          \* consent harness: "off" | "call" | "done"
  program,        \* session: "test_forms" | "process_forms" ("off" when not running)
  json_data,      \* session: the form entries, in file order
  index,          \* session: the entry the loop is at (1-based)
  driver,         \* session: "none" until setup_browser returned, then "driver"
  browser,        \* session: "none" | "running" | "quit" (the browser process)
  user_notes,     \* session: the notes gathered so far
  events,         \* session: what the run did, in order
  s_pc            \* session: "off" | "setup" | "loop" | "finally" | "returned"

resolveVars == <<field_name, mode, user_value>>
dropdownVars == <<control, desired, raising, dd, dd_pc>>

formVars == <<entry, pc, i, filled_fields, outcomes, driver_log, privacy_calls, result>>

checkboxVars == <<cb_in, cb_out, cb_pc>>
privacyVars == <<pv_in, pv_out, pv_pc>>
sessionVars == <<program, json_data, index, driver, browser, user_notes, events, s_pc>>
harnessVars == <<checkboxVars, privacyVars, sessionVars>>

vars == <<user_data, field_name, mode, user_value, control, desired, raising, dd, dd_pc,
          entry, pc, i, filled_fields, outcomes, driver_log, privacy_calls, result,
          cb_in, cb_out, cb_pc, pv_in, pv_out, pv_pc,
          program, json_data, index, driver, browser, user_notes, events, s_pc>>

-----------------------------------------------------------------------------
(* Python values and string primitives *)

\* A profile value is a str or a bool; None is the absence of a value.
None == [kind |-> "none", b |-> FALSE, text |-> ""]
StrVal(s) == [kind |-> "str", b |-> FALSE, text |-> s]
BoolVal(x) == [kind |-> "bool", b |-> x, text |-> ""]

\* str(value)
PyStr(v) ==
  IF v.kind = "bool" THEN (IF v.b THEN "True" ELSE "False")
  ELSE IF v.kind = "none" THEN "None"
  ELSE v.text

\* isinstance(value, bool)
IsBool(v) == v.kind = "bool"

UpperToLower ==
  [A |-> "a", B |-> "b", C |-> "c", D |-> "d", E |-> "e", F |-> "f", G |-> "g",
   H |-> "h", I |-> "i", J |-> "j", K |-> "k", L |-> "l", M |-> "m", N |-> "n",
   O |-> "o", P |-> "p", Q |-> "q", R |-> "r", S |-> "s", T |-> "t", U |-> "u",
   V |-> "v", W |-> "w", X |-> "x", Y |-> "y", Z |-> "z"]

\* str.lower(), one character
LowerChar(c) == IF c \in DOMAIN UpperToLower THEN UpperToLower[c] ELSE c

\* str.lower()
RECURSIVE PyLower(_)
PyLower(s) == IF s = "" THEN "" ELSE LowerChar(Head(s)) \o PyLower(Tail(s))

\* `sub in s` on two strings: substring containment (the empty string is in
\* every string)
PyIn(sub, s) ==
  \E k \in 0..(Len(s) - Len(sub)) : SubSeq(s, k + 1, k + Len(sub)) = sub

\* `x in lst` on a list of strings
InList(x, lst) == \E k \in 1..Len(lst) : lst[k] = x

\* `key in user_data`
HasKey(d, key) == \E k \in 1..Len(d) : d[k].key = key

\* user_data[key]
Get(d, key) == d[CHOOSE k \in 1..Len(d) : d[k].key = key].value

\* the least element of a non-empty set of indices
Least(S) == CHOOSE k \in S : \A j \in S : k <= j

-----------------------------------------------------------------------------
(* The alias table, in declaration order *)

field_mappings ==
  << [user_key |-> "Street",
      possible_fields |-> <<"Street", "StreetAddress", "Address", "AddressLine1", "addr1">>],
     [user_key |-> "StreetAddress",
      possible_fields |-> <<"Street", "StreetAddress", "Address", "AddressLine1", "addr1">>],
     [user_key |-> "Address",
      possible_fields |-> <<"Street", "StreetAddress", "Address", "AddressLine1", "addr1">>],
     [user_key |-> "Email",
      possible_fields |-> <<"Email", "EmailAddress", "email_address">>],
     [user_key |-> "ConfirmEmail",
      possible_fields |-> <<"ConfirmEmail", "EmailConfirm", "email_confirm", "verify_email">>],
     [user_key |-> "Phone",
      possible_fields |-> <<"Phone", "Telephone", "PhoneNumber", "phone_number", "Mobile">>],
     [user_key |-> "City",
      possible_fields |-> <<"City", "Town", "city_name">>],
     [user_key |-> "Zipcode",
      possible_fields |-> <<"Zipcode", "ZipCode", "PostalCode", "Zip", "postal_code", "zip_code">>],
     [user_key |-> "State",
      possible_fields |-> <<"State", "Province", "Region", "state_province">>],
     [user_key |-> "Country",
      possible_fields |-> <<"Country", "Nation", "country_name">> ] >>

-----------------------------------------------------------------------------
(* Field resolution *)

\* The alias entries that match a declared field: the name is listed and the
\* canonical key is in the profile.
AliasHits(name, d) ==
  { k \in 1..Len(field_mappings) :
      /\ InList(name, field_mappings[k].possible_fields)
      /\ HasKey(d, field_mappings[k].user_key) }

\* The greatest element of a non-empty set of indices
Greatest(S) == CHOOSE k \in S : \A j \in S : j <= k

\* AliasLookup without the `break`: the last hit in declaration order wins.
AliasLookupLastWins(name, d) ==
  IF AliasHits(name, d) = {} THEN None
  ELSE Get(d, field_mappings[Greatest(AliasHits(name, d))].user_key)

\* The alias loop of the declared path: the first hit in declaration order.
AliasLookup(name, d) ==
  IF AliasHits(name, d) = {} THEN None
  ELSE Get(d, field_mappings[Least(AliasHits(name, d))].user_key)

\* a declared resolution that knows no alias table
ResolveExactOnly(name, d) == IF HasKey(d, name) THEN Get(d, name) ELSE None

\* Resolution of a declared field: direct key, else alias table, else None.
ResolveDeclared(name, d) ==
  IF HasKey(d, name) THEN Get(d, name) ELSE AliasLookup(name, d)

\* `a in b or b in a`
EitherContains(a, b) == PyIn(a, b) \/ PyIn(b, a)

\* the test of lines 138 and 148 in one direction only
LooseMatchOneWay(candidate, field) == PyIn(PyLower(candidate), field)

\* The two-way substring test of the additional path (field already lowered).
LooseMatch(candidate, field) == EitherContains(PyLower(candidate), field)

\* First loop of the additional path: profile keys in profile order.
LooseKeyHits(field, d) == { k \in 1..Len(d) : LooseMatch(d[k].key, field) }

\* Second loop: alias entries whose key is in the profile and one of whose
\* aliases matches loosely.
LooseAliasHits(field, d) ==
  { k \in 1..Len(field_mappings) :
      /\ HasKey(d, field_mappings[k].user_key)
      /\ \E j \in 1..Len(field_mappings[k].possible_fields) :
            LooseMatch(field_mappings[k].possible_fields[j], field) }

\* Lines 144-153, reached when the first loop left no matching_key: ah is
\* the alias entries that match; val1 is what the first loop left behind.
AliasLoop(d, ah, val1) ==
  IF ah # {}
  THEN [matching_key |-> field_mappings[Least(ah)].user_key,
        matching_value |-> Get(d, field_mappings[Least(ah)].user_key)]
  ELSE [matching_key |-> "", matching_value |-> val1]

\* Lines 136-153 on the lowered name: kh is the profile keys that match.
KeyLoop(field, d, kh) ==
  IF kh # {} /\ d[Least(kh)].key # ""
  THEN [matching_key |-> d[Least(kh)].key, matching_value |-> d[Least(kh)].value]
  ELSE AliasLoop(d, LooseAliasHits(field, d),
                 IF kh = {} THEN None ELSE d[Least(kh)].value)

\* the resolution of an additional field whose lowered name is field
ResolveLowered(field, d) == KeyLoop(field, d, LooseKeyHits(field, d))

\* Resolution of an additional field. The result carries matching_key and
\* matching_value; `not matching_key` is true for no key and for the key "".
ResolveAdditional(raw_name, d) == ResolveLowered(PyLower(raw_name), d)

\* `None if not matching_key else matching_value`
ValueOf(r) == IF r.matching_key = "" THEN None ELSE r.matching_value

\* What the additional path goes on with: None when `not matching_key`.
AdditionalValue(raw_name, d) == ValueOf(ResolveAdditional(raw_name, d))

-----------------------------------------------------------------------------
(* handle_dropdown *)

\* A control is [tag, options, rendered]: options is what Select(element)
\* exposes (each [text, value]); rendered is, for a custom dropdown, the list
\* of item texts each structural pattern finds once the control is opened.
\* faults is the set of call sites at which the driver raises.

\* str.strip(), for the blank the model's strings use
RECURSIVE PyLStrip(_)
PyLStrip(s) == IF s # "" /\ Head(s) = " " THEN PyLStrip(Tail(s)) ELSE s

RECURSIVE PyRStrip(_)
PyRStrip(s) ==
  IF s # "" /\ SubSeq(s, Len(s), Len(s)) = " "
  THEN PyRStrip(SubSeq(s, 1, Len(s) - 1)) ELSE s

PyStrip(s) == PyRStrip(PyLStrip(s))

\* the placeholder tokens of lines 249 and 319
Placeholders == <<"select", "choose", "pick", "---">>

\* `text.strip() and not text.lower() in [...]`
IsValidOption(text) == PyStrip(text) # "" /\ ~InList(PyLower(text), Placeholders)

\* Select.select_by_visible_text: the first option with that label; 0 stands
\* for the NoSuchElementException (or the driver fault) it raises
SelectByVisibleText(c, text, faulty) ==
  LET hits == { k \in 1..Len(c.options) : c.options[k].text = text }
  IN IF faulty \/ hits = {} THEN 0 ELSE Least(hits)

\* Select.select_by_value
SelectByValue(c, v, faulty) ==
  LET hits == { k \in 1..Len(c.options) : c.options[k].value = v }
  IN IF faulty \/ hits = {} THEN 0 ELSE Least(hits)

\* Select.select_by_index: the option whose index attribute is idx
SelectByIndex(c, idx, faulty) ==
  IF ~faulty /\ idx + 1 <= Len(c.options) THEN idx + 1 ELSE 0

\* Strategy 3 (lines 220-229): the first option, in declared order, whose
\* lowered label contains the lowered value
PartialMatch(c, v, faulty) ==
  LET hits == { k \in 1..Len(c.options) :
                  PyIn(PyLower(v), PyLower(c.options[k].text)) }
  IN IF faulty \/ hits = {} THEN 0
     ELSE SelectByVisibleText(c, c.options[Least(hits)].text, FALSE)

\* Strategy 5 (lines 243-258): the last option that is not blank and not a
\* placeholder token, selected by its label
LastValidOption(c, faulty) ==
  LET valid == { k \in 1..Len(c.options) : IsValidOption(c.options[k].text) }
  IN IF faulty \/ valid = {} THEN 0
     ELSE SelectByVisibleText(c, c.options[Greatest(valid)].text, FALSE)

\* The native strategies in the order the code tries them (Strategy 4 is
\* commented out in the source).
NativeStrategies == <<"text", "value", "partial", "last", "index">>

\* One native strategy: the index of the option it selects, 0 if it raised or
\* found nothing.
NativeStrategy(name, c, v, faults) ==
  CASE name = "text"    -> SelectByVisibleText(c, v, "text" \in faults)
    [] name = "value"   -> SelectByValue(c, v, "value" \in faults)
    [] name = "partial" -> PartialMatch(c, v, "partial" \in faults)
    [] name = "last"    -> LastValidOption(c, "last" \in faults)
    [] name = "index"   -> SelectByIndex(c, 1, "index" \in faults)

Attempt(name, ok) == [strategy |-> name, ok |-> ok]

\* A cascade that does not return after a successful strategy.
RECURSIVE NativeCascadeNoReturn(_, _, _, _, _)
NativeCascadeNoReturn(c, v, faults, n, r) ==
  IF n > Len(NativeStrategies) THEN r
  ELSE LET sel == NativeStrategy(NativeStrategies[n], c, v, faults)
       IN NativeCascadeNoReturn(c, v, faults, n + 1,
            [attempts |-> Append(r.attempts, Attempt(NativeStrategies[n], sel # 0)),
             selected |-> IF sel # 0 THEN sel ELSE r.selected,
             via |-> IF sel # 0 THEN "native" ELSE r.via])

\* Lines 203-266: try the strategies from the n-th on; the first that selects
\* an option returns.
RECURSIVE NativeCascade(_, _, _, _, _)
NativeCascade(c, v, faults, n, r) ==
  IF n > Len(NativeStrategies) THEN r
  ELSE LET sel == NativeStrategy(NativeStrategies[n], c, v, faults)
           log == Append(r.attempts, Attempt(NativeStrategies[n], sel # 0))
       IN IF sel # 0
          THEN [attempts |-> log, selected |-> sel, via |-> "native"]
          ELSE NativeCascade(c, v, faults, n + 1,
                 [attempts |-> log, selected |-> 0, via |-> "none"])

\* The structural patterns of lines 281-288, in list order
selectors ==
  << "//ul[contains(@class, 'dropdown')]/li",
     "//div[contains(@class, 'dropdown')]/div",
     "//div[contains(@class, 'select')]/div",
     "//div[contains(@class, 'option')]",
     "//li[contains(@class, 'option')]",
     "//div[contains(@role, 'option')]" >>

\* Lines 290-298: the patterns waited for, in order, up to the first that
\* finds items (an empty result times out and the loop continues)
Probes(c) ==
  LET found == { k \in 1..Len(c.rendered) : c.rendered[k] # << >> }
  IN [k \in 1..(IF found = {} THEN Len(selectors) ELSE Least(found)) |->
        Attempt(selectors[k], c.rendered[k] # << >>)]

\* the items of the last pattern that finds any
DropdownItemsOfLastPattern(c) ==
  LET found == { k \in 1..Len(c.rendered) : c.rendered[k] # << >> }
  IN IF found = {} THEN << >> ELSE c.rendered[Greatest(found)]

\* Lines 290-298: the items of the first structural pattern that finds any
DropdownItems(c) ==
  LET found == { k \in 1..Len(c.rendered) : c.rendered[k] # << >> }
  IN IF found = {} THEN << >> ELSE c.rendered[Least(found)]

\* Lines 300-330: exact (case-insensitive) match, then partial match, then the
\* last valid item, then the last item; 0 if there are no items.
CustomChoice(items, v) ==
  LET exact == { k \in 1..Len(items) : PyLower(v) = PyLower(items[k]) }
      part  == { k \in 1..Len(items) : PyIn(PyLower(v), PyLower(items[k])) }
      valid == { k \in 1..Len(items) : IsValidOption(items[k]) }
  IN IF items = << >> THEN [strategy |-> "none", item |-> 0]
     ELSE IF exact # {} THEN [strategy |-> "custom_exact", item |-> Least(exact)]
     ELSE IF part # {} THEN [strategy |-> "custom_partial", item |-> Least(part)]
     ELSE IF valid # {} THEN [strategy |-> "custom_last", item |-> Greatest(valid)]
     ELSE [strategy |-> "custom_last", item |-> Len(items)]

\* Lines 268-332: the custom path, entered when Select(element) raised. The
\* attempts so far are kept; a raising open or click ends the path.
CustomDropdown(c, v, faults, log) ==
  LET ch == CustomChoice(DropdownItems(c), v)
      opened == Append(log, Attempt("open", ~("open" \in faults)))
      probed == opened \o Probes(c)
  IN IF "open" \in faults
       THEN [attempts |-> opened, selected |-> 0, via |-> "none"]
     ELSE IF ch.item = 0
       THEN [attempts |-> probed, selected |-> 0, via |-> "none"]
     ELSE IF "click" \in faults
       THEN [attempts |-> Append(probed, Attempt(ch.strategy, FALSE)),
             selected |-> 0, via |-> "none"]
     ELSE [attempts |-> Append(probed, Attempt(ch.strategy, TRUE)),
           selected |-> ch.item, via |-> "custom"]

\* handle_dropdown(element, value): Select(element) raises unless the element
\* is a <select>; nothing ever propagates to the caller.
HandleDropdown(c, value, faults) ==
  IF c.tag = "select"
  THEN NativeCascade(c, PyStr(value), faults, 1,
         [attempts |-> << >>, selected |-> 0, via |-> "none"])
  ELSE CustomDropdown(c, PyStr(value), faults, <<Attempt("Select", FALSE)>>)

\* What the caller of handle_dropdown receives: every `return` of the function
\* (lines 207, 215, 227, 256, 264, 306, 313, 330) is a bare return and so is
\* falling off its end, so the value is None whatever r, the call's effect, is.
Returned(r) ==
  [attempts |-> r.attempts, selected |-> r.selected, via |-> r.via, returned |-> None]

-----------------------------------------------------------------------------
(* select_checkbox_by_xpath *)

\* A checkbox scenario cb says what the page does: whether the presence and
\* visibility waits find the element, what the XPath script returns
\* ("element", "null" or "raise"), which interactions succeed, and the
\* control's checked state before the call.
\* Lines 469-501: locating the element; "raise" is the early `return False`.
LocateCheckbox(cb) ==
  IF cb.presence THEN [how |-> "presence", ops |-> <<"wait_present">>]
  ELSE IF cb.visibility
    THEN [how |-> "visibility", ops |-> <<"wait_present", "wait_visible">>]
  ELSE [how |-> IF cb.script = "element" THEN "script" ELSE cb.script,
        ops |-> <<"wait_present", "wait_visible", "script_xpath">>]

\* Lines 503-541: click, else label click, else checked = true by script.
\* The result is the return value, the checked state afterwards and the
\* driver operations performed.
SelectCheckboxByXpath(cb) ==
  LET loc == LocateCheckbox(cb)
  IN IF loc.how \in {"raise", "null"}
       THEN [returned |-> FALSE, checked |-> cb.checked, ops |-> loc.ops]
     ELSE IF cb.click_ok
       THEN [returned |-> TRUE, checked |-> ~cb.checked,
             ops |-> loc.ops \o <<"click">>]
     ELSE IF cb.label_ok
       THEN [returned |-> TRUE, checked |-> ~cb.checked,
             ops |-> loc.ops \o <<"click", "label_click">>]
     ELSE IF cb.script_set_ok
       THEN [returned |-> TRUE, checked |-> TRUE,
             ops |-> loc.ops \o <<"click", "label_click", "script_set_checked">>]
     ELSE [returned |-> FALSE, checked |-> cb.checked,
           ops |-> loc.ops \o <<"click", "label_click", "script_set_checked">>]

-----------------------------------------------------------------------------
(* handle_privacy_field *)

IsQuote(c) == c = "'" \/ c = "\""

\* re.search(r'id=[\'"]([^\'"]+)[\'"]', xpath) anchored at position p: the
\* captured group, "" if there is no match at p
IdAt(x, p) ==
  IF p + 3 > Len(x) \/ SubSeq(x, p, p + 2) # "id=" \/ ~IsQuote(SubSeq(x, p + 3, p + 3))
  THEN ""
  ELSE LET closing == { q \in (p + 4)..Len(x) : IsQuote(SubSeq(x, q, q)) }
       IN IF closing = {} THEN "" ELSE SubSeq(x, p + 4, Least(closing) - 1)

\* Lines 365-370: checkbox_id, "" standing for None
ExtractId(x) ==
  IF ~PyIn("id=", x) THEN ""
  ELSE LET at == { p \in 1..(Len(x) - 3) : IdAt(x, p) # "" }
       IN IF at = {} THEN "" ELSE IdAt(x, Least(at))

\* entry.get('fields', {}).get('Privacy', {}): the index of the declared
\* field named Privacy, 0 if there is none
PrivacyIndex(e) ==
  LET at == { k \in 1..Len(e.fields) : e.fields[k].name = "Privacy" }
  IN IF at = {} THEN 0 ELSE Least(at)

\* The two framework-specific selectors of lines 342-345
vue_privacy_selectors ==
  << "[data-v-41ea0579][type='checkbox'][name='checkbox']",
     "input.label-container__field.custom-checkbox[type='checkbox']" >>

POp(op, target) == [op |-> op, target |-> target]

\* Lines 347-353: probe the selectors in order until one finds an element;
\* pv.vue is the index of the first selector that finds one, 0 if none does.
VueProbes(pv) ==
  [k \in 1..(IF pv.vue = 0 THEN Len(vue_privacy_selectors) ELSE pv.vue) |->
     POp("find_css", vue_privacy_selectors[k])]

\* Lines 365-392: the descriptor's XPath, then the id extracted from it.
LocateByXpath(xpath, id, pv) ==
  IF pv.present
    THEN [source |-> "xpath", checkbox_id |-> id,
          ops |-> Append(VueProbes(pv), POp("wait_present", xpath))]
  ELSE IF id # "" /\ pv.by_id
    THEN [source |-> "id", checkbox_id |-> id,
          ops |-> VueProbes(pv) \o <<POp("wait_present", xpath), POp("find_id", id)>>]
  ELSE [source |-> "not_found", checkbox_id |-> id,
        ops |-> VueProbes(pv) \o
                (IF id # "" THEN <<POp("wait_present", xpath), POp("find_id", id)>>
                 ELSE <<POp("wait_present", xpath)>>)]

\* a location step that goes on to the Privacy descriptor even when a
\* framework-specific selector has found an element
LocatePrivacyDescriptorAlways(e, pv) ==
  LET k == PrivacyIndex(e)
  IN IF k = 0 \/ ~e.fields[k].found \/ e.fields[k].xpath = ""
       THEN IF pv.vue # 0
              THEN [source |-> "vue", checkbox_id |-> "", ops |-> VueProbes(pv)]
            ELSE [source |-> "no_checkbox", checkbox_id |-> "", ops |-> VueProbes(pv)]
     ELSE LocateByXpath(e.fields[k].xpath, ExtractId(e.fields[k].xpath), pv)

\* Lines 355-392: where the element comes from. source is "vue", "xpath",
\* "id" or the reason there is none.
LocatePrivacy(e, pv) ==
  LET k == PrivacyIndex(e)
  IN IF pv.vue # 0
       THEN [source |-> "vue", checkbox_id |-> "", ops |-> VueProbes(pv)]
     ELSE IF k = 0 \/ ~e.fields[k].found
       THEN [source |-> "no_checkbox", checkbox_id |-> "", ops |-> VueProbes(pv)]
     ELSE IF e.fields[k].xpath = ""
       THEN [source |-> "no_locator", checkbox_id |-> "", ops |-> VueProbes(pv)]
     ELSE LocateByXpath(e.fields[k].xpath, ExtractId(e.fields[k].xpath), pv)

\* The seven strategies of lines 404-441. A strategy "returns" when its
\* lambda raises nothing: strategies 3 and 4 evaluate to None, raising
\* nothing, when no checkbox_id is known.
StrategyReturns(n, checkbox_id, pv) ==
  IF n \in {3, 4} /\ checkbox_id = "" THEN TRUE ELSE n \notin pv.failing

\* whether strategy n performs an activation when it returns
StrategyActs(n, checkbox_id) == ~(n \in {3, 4} /\ checkbox_id = "")

NumStrategies == 7

\* what each of the seven lambdas of lines 404-441 does, in list order
strategies ==
  << "click", "script_click", "label_click", "frame_click", "set_checked",
     "parent_click", "span_click" >>

\* the loop of lines 444-453 without its `continue`: the first strategy that
\* raises ends the cascade
PrivacyCascadeAbortOnFailure(n, checkbox_id, pv, log) ==
  IF StrategyReturns(n, checkbox_id, pv)
    THEN [status |-> "clicked", strategy |-> n, attempts |-> Append(log, n)]
  ELSE [status |-> "failed", strategy |-> 0, attempts |-> Append(log, n)]

\* Lines 444-453: the strategies tried, in order, up to the first that returns
RECURSIVE PrivacyCascade(_, _, _, _)
PrivacyCascade(n, checkbox_id, pv, log) ==
  IF n > NumStrategies THEN [status |-> "failed", strategy |-> 0, attempts |-> log]
  ELSE IF StrategyReturns(n, checkbox_id, pv)
    THEN [status |-> "clicked", strategy |-> n, attempts |-> Append(log, n)]
  ELSE PrivacyCascade(n + 1, checkbox_id, pv, Append(log, n))

\* Lines 394-456: what is done with the element located as loc
ActOnPrivacy(e, pv, loc) ==
  LET target == IF loc.source = "vue" THEN vue_privacy_selectors[pv.vue]
                ELSE IF loc.source = "id" THEN loc.checkbox_id
                ELSE e.fields[PrivacyIndex(e)].xpath
      cas == PrivacyCascade(1, loc.checkbox_id, pv, << >>)
  IN IF loc.source \notin {"vue", "xpath", "id"}
       THEN [status |-> loc.source, strategy |-> 0, source |-> loc.source,
             attempts |-> << >>, ops |-> loc.ops]
     ELSE IF pv.selected
       THEN [status |-> "already_selected", strategy |-> 0, source |-> loc.source,
             attempts |-> << >>, ops |-> Append(loc.ops, POp("is_selected", target))]
     ELSE IF ~pv.scroll_ok
       THEN [status |-> "error", strategy |-> 0, source |-> loc.source,
             attempts |-> << >>,
             ops |-> loc.ops \o <<POp("is_selected", target), POp("scroll", target)>>]
     ELSE [status |-> cas.status, strategy |-> cas.strategy, source |-> loc.source,
           attempts |-> cas.attempts,
           ops |-> loc.ops \o <<POp("is_selected", target), POp("scroll", target)>>
                    \o [k \in 1..Len(cas.attempts) |-> POp("strategy", target)]]

\* handle_privacy_field(entry) under page scenario pv
HandlePrivacyField(e, pv) == ActOnPrivacy(e, pv, LocatePrivacy(e, pv))

-----------------------------------------------------------------------------
(* Resolver harness: one resolution of one field name against one profile *)

Pair(k, v) == [key |-> k, value |-> v]

Profiles ==
  { << >>,
    << Pair("FirstName", StrVal("John")), Pair("LastName", StrVal("Doe")),
       Pair("Email", StrVal("johndoe@example.com")), Pair("Phone", StrVal("5551234567")) >>,
    << Pair("Email", StrVal("johndoe@example.com")),
       Pair("ConfirmEmail", StrVal("confirm@example.com")) >>,
    << Pair("ConfirmEmail", StrVal("confirm@example.com")),
       Pair("Email", StrVal("johndoe@example.com")) >>,
    << Pair("Address", StrVal("1 Main St")), Pair("Street", StrVal("Main St")) >>,
    << Pair("Address", StrVal("1 Main St")), Pair("Zipcode", StrVal("12345")),
       Pair("Subscribe", BoolVal(TRUE)) >>,
    << Pair("Email", StrVal("johndoe@example.com")), Pair("Submit", StrVal("go")),
       Pair("Country", StrVal("USA")) >> }

FieldNames ==
  { "Email", "EmailAddress", "emailaddress", "email_address", "EMAIL",
    "ConfirmEmail", "verify_email", "Mail", "user_email_addr",
    "Street", "Address", "addr1", "AddressLine1", "address",
    "Zip", "ZipCode", "zipcode", "Town", "Nation", "Country",
    "Submit", "Privacy", "Subscribe", "Name", "FirstName", "Nickname", "" }

\* the dropdown harness at rest
DropdownOff ==
  /\ control = [tag |-> "", options |-> << >>, rendered |-> << >>]
  /\ desired = None
  /\ raising = {}
  /\ dd = [attempts |-> << >>, selected |-> 0, via |-> "none", returned |-> None]
  /\ dd_pc = "off"

\* process_form not running
FormOff ==
  /\ entry = [fields |-> << >>, additional_fields |-> << >>]
  /\ pc = "off"
  /\ i = 0
  /\ filled_fields = << >>
  /\ outcomes = << >>
  /\ driver_log = << >>
  /\ privacy_calls = << >>
  /\ result = "none"

\* the checkbox harness at rest
CheckboxOff ==
  /\ cb_in = [presence |-> FALSE, visibility |-> FALSE, script |-> "null", click_ok |-> FALSE,
              label_ok |-> FALSE, script_set_ok |-> FALSE, checked |-> FALSE]
  /\ cb_out = [returned |-> FALSE, checked |-> FALSE, ops |-> << >>]
  /\ cb_pc = "off"

\* the consent harness at rest
PrivacyOff ==
  /\ pv_in = [vue |-> 0, present |-> FALSE, by_id |-> FALSE, selected |-> FALSE,
              scroll_ok |-> FALSE, failing |-> {}]
  /\ pv_out = [status |-> "none", strategy |-> 0, source |-> "none", attempts |-> << >>,
               ops |-> << >>]
  /\ pv_pc = "off"

\* no session running
SessionOff ==
  /\ program = "off"
  /\ json_data = << >>
  /\ index = 0
  /\ driver = "none"
  /\ browser = "none"
  /\ user_notes = << >>
  /\ events = << >>
  /\ s_pc = "off"

HarnessesOff == CheckboxOff /\ PrivacyOff /\ SessionOff

\* the resolver harness at rest
ResolverOff == field_name = "" /\ mode = "off" /\ user_value = None

InitResolve ==
  /\ user_data \in Profiles
  /\ field_name \in FieldNames
  /\ mode = "idle"
  /\ user_value = None
  /\ DropdownOff
  /\ FormOff
  /\ HarnessesOff

\* lines 70-85: the declared loop's resolution of field_name
ResolveDeclaredField ==
  /\ mode = "idle"
  /\ mode' = "declared"
  /\ user_value' = ResolveDeclared(field_name, user_data)
  /\ UNCHANGED <<user_data, field_name, dropdownVars, formVars, harnessVars>>

\* lines 123-156: the additional loop's resolution of field_name
ResolveAdditionalField ==
  /\ mode = "idle"
  /\ mode' = "additional"
  /\ user_value' = AdditionalValue(field_name, user_data)
  /\ UNCHANGED <<user_data, field_name, dropdownVars, formVars, harnessVars>>

NextResolve == ResolveDeclaredField \/ ResolveAdditionalField

SpecResolve == InitResolve /\ [][NextResolve]_vars

-----------------------------------------------------------------------------
(* Dropdown harness: one call of handle_dropdown on one control *)

MaxOptions == 3

Option(t, v) == [text |-> t, value |-> v]

OptionUniverse ==
  { Option("USA", "us"), Option("United States", "USA"), Option("Canada", "ca"),
    Option("Choose...", ""), Option("select", ""), Option("-- Select --", ""),
    Option(" ", "") }

\* sequences over S of length at most n
RECURSIVE SeqsUpTo(_, _)
SeqsUpTo(S, n) ==
  IF n = 0 THEN { << >> }
  ELSE LET shorter == SeqsUpTo(S, n - 1)
       IN shorter \cup { Append(q, x) : q \in shorter, x \in S }

NativeControls ==
  { [tag |-> "select", options |-> o, rendered |-> << >>] :
      o \in SeqsUpTo(OptionUniverse, MaxOptions) }

\* the six structural patterns of lines 281-288, none of which finds anything
NothingRendered == << << >>, << >>, << >>, << >>, << >>, << >> >>

ItemLists ==
  { << >>, <<"Choose", "USA", "Canada">>, <<"select", "---">>, <<"select", "---", " ">>,
    <<"usa today", "USA">> }

CustomControls ==
  { [tag |-> "div", options |-> << >>,
     rendered |-> [NothingRendered EXCEPT ![p] = items, ![q] = more]] :
      p \in {1, 4}, q \in {4, 6}, items \in ItemLists, more \in ItemLists }

DesiredValues ==
  { StrVal("USA"), StrVal("can"), StrVal("Mexico"), StrVal(""), BoolVal(TRUE) }

FaultSets ==
  { {}, {"text"}, {"value"}, {"partial"}, {"last"}, {"index"},
    {"text", "value"}, {"partial", "last"}, {"text", "value", "partial", "last", "index"},
    {"open"}, {"click"} }

InitDropdown ==
  /\ user_data = << >>
  /\ ResolverOff
  /\ control \in NativeControls \cup CustomControls
  /\ desired \in DesiredValues
  /\ raising \in FaultSets
  /\ dd = [attempts |-> << >>, selected |-> 0, via |-> "none", returned |-> None]
  /\ dd_pc = "call"
  /\ FormOff
  /\ HarnessesOff

\* lines 192-332: the whole of handle_dropdown
CallHandleDropdown ==
  /\ dd_pc = "call"
  /\ dd' = Returned(HandleDropdown(control, desired, raising))
  /\ dd_pc' = "done"
  /\ UNCHANGED <<user_data, resolveVars, control, desired, raising, formVars, harnessVars>>

NextDropdown == CallHandleDropdown

SpecDropdown == InitDropdown /\ [][NextDropdown]_vars

-----------------------------------------------------------------------------
(* process_form *)

\* A declared loop without the Submit branch of lines 59-66.
SubmitNeverSkipped(f) == FALSE

\* Lines 59-64: the Submit field is logged and skipped when it has an XPath.
SubmitSkipped(f) == f.name = "Submit" /\ f.xpath # ""

\* A dispatch without the isinstance(value, bool) test of lines 104 and 166.
DispatchIgnoringValueKind(type, tag, value) ==
  IF type = "select" \/ tag = "select" THEN "dropdown"
  ELSE IF type = "checkbox" THEN "checkbox"
  ELSE "text"

\* Lines 102-110 and 164-172 on the lowered type and tag.
DispatchLowered(type, tag, value) ==
  IF type = "select" \/ tag = "select" THEN "dropdown"
  ELSE IF type = "checkbox" /\ IsBool(value) THEN "checkbox"
  ELSE "text"

\* Lines 100-110 and 125, 164-172: which commit path runs for a located
\* element, from element_type.lower() and element.tag_name.lower().
Dispatch(type, tag, value) == DispatchLowered(PyLower(type), PyLower(tag), value)

\* Per-field handlers that let an interaction error escape.
PropagatesInteractionErrors(outcome) == outcome = "interaction_failed"

\* Lines 115-118 and 177-180: both except clauses swallow the exception, so
\* no outcome of a field ends the loop.
Propagates(outcome) == FALSE

\* A call of handle_privacy_field made only when a Privacy field is declared.
CallsPrivacyIfDeclared(e) == PrivacyIndex(e) # 0

\* Line 183: the call of handle_privacy_field is unconditional.
CallsPrivacy(e) == TRUE

\* Lines 100-112 and 164-174: commit the value by the dispatched path, under
\* page scenario sc. committed says whether the value reached the element.
Commit(path, value, sc) ==
  IF path = "dropdown"
    THEN [outcome |-> "filled", path |-> path, tag |-> sc.control.tag,
          committed |-> HandleDropdown(sc.control, value, sc.raising).selected # 0,
          typed |-> "", ops |-> <<"wait_clickable", "handle_dropdown">>,
          located |-> TRUE, interactable |-> sc.typing_ok, checked |-> sc.cb.checked]
  ELSE IF path = "checkbox"
    THEN [outcome |-> "filled", path |-> path, tag |-> sc.control.tag,
          committed |-> SelectCheckboxByXpath(sc.cb).returned,
          typed |-> "",
          ops |-> <<"wait_clickable">> \o SelectCheckboxByXpath(sc.cb).ops,
          located |-> TRUE, interactable |-> sc.typing_ok,
          checked |-> SelectCheckboxByXpath(sc.cb).checked]
  ELSE IF sc.typing_ok
    THEN [outcome |-> "filled", path |-> path, tag |-> sc.control.tag, committed |-> TRUE,
          typed |-> PyStr(value), ops |-> <<"wait_clickable", "clear", "send_keys">>,
          located |-> TRUE, interactable |-> TRUE, checked |-> sc.cb.checked]
  ELSE [outcome |-> "interaction_failed", path |-> path, tag |-> sc.control.tag,
        committed |-> FALSE, typed |-> "", ops |-> <<"wait_clickable", "clear">>,
        located |-> TRUE, interactable |-> FALSE, checked |-> sc.cb.checked]

\* Lines 93-118 and 158-180: wait for the element, then commit.
FillField(value, type, sc) ==
  IF ~sc.located
    THEN [outcome |-> "element_not_found", path |-> "none", tag |-> "", committed |-> FALSE,
          typed |-> "", ops |-> <<"wait_clickable">>, located |-> FALSE,
          interactable |-> FALSE, checked |-> sc.cb.checked]
  ELSE Commit(Dispatch(type, sc.control.tag, value), value, sc)

\* a field that was passed over before any driver operation
Skipped(outcome) ==
  [outcome |-> outcome, path |-> "none", tag |-> "", committed |-> FALSE, typed |-> "",
   ops |-> << >>, located |-> FALSE, interactable |-> FALSE, checked |-> FALSE]

\* a declared loop that waits for the element before it looks at the value
DeclaredOutcomeWaitFirst(f, value, sc) ==
  IF SubmitSkipped(f) THEN Skipped("submit_logged")
  ELSE IF f.xpath = "" THEN Skipped("skipped_no_locator")
  ELSE IF value = None
    THEN [outcome |-> "skipped_no_match", path |-> "none", tag |-> "", committed |-> FALSE,
          typed |-> "", ops |-> <<"wait_clickable">>, located |-> sc.located,
          interactable |-> FALSE, checked |-> sc.cb.checked]
  ELSE FillField(value, f.type, sc)

\* Lines 57-91 for declared field f, whose name resolved to value (lines
\* 70-82): what happens to it under scenario sc.
DeclaredOutcome(f, value, sc) ==
  IF SubmitSkipped(f) THEN Skipped("submit_logged")
  ELSE IF value = None THEN Skipped("skipped_no_match")
  ELSE IF f.xpath = "" THEN Skipped("skipped_no_locator")
  ELSE FillField(value, f.type, sc)

\* Lines 122-180 for additional field a, whose name resolves to value (lines
\* 131-153; the resolution is not reached when there is no XPath).
AdditionalOutcome(a, value, sc) ==
  IF a.xpath = "" THEN Skipped("skipped_no_locator")
  ELSE IF value = None THEN Skipped("skipped_no_match")
  ELSE FillField(value, a.element_type, sc)

\* where the loops stand after field k of `loop`
After(loop, k, e) ==
  IF loop = "declared" /\ k < Len(e.fields) THEN [pc |-> "declared", i |-> k + 1]
  ELSE IF loop = "declared" /\ Len(e.additional_fields) > 0
    THEN [pc |-> "additional", i |-> 1]
  ELSE IF loop = "additional" /\ k < Len(e.additional_fields)
    THEN [pc |-> "additional", i |-> k + 1]
  ELSE [pc |-> "privacy", i |-> 0]

\* the bookkeeping one field leaves behind; located and interactable say
\* what the page did: whether the element wait succeeded and whether the
\* element accepted clear(); checked is the state of the checkbox afterwards
Record(loop, k, name, value, r) ==
  [loop |-> loop, i |-> k, name |-> name, value |-> value, outcome |-> r.outcome,
   path |-> r.path, tag |-> r.tag, committed |-> r.committed, typed |-> r.typed,
   located |-> r.located, interactable |-> r.interactable, checked |-> r.checked]

LogOps(loop, k, xpath, ops) ==
  [n \in 1..Len(ops) |-> [loop |-> loop, i |-> k, op |-> ops[n], target |-> xpath]]

\* One field has been handled: lines 112 / 174 append its name when it was
\* filled; an exception that propagated would reach line 188 and return False.
FieldDone(loop, name, value, xpath, r) ==
  /\ outcomes' = Append(outcomes, Record(loop, i, name, value, r))
  /\ driver_log' = driver_log \o LogOps(loop, i, xpath, r.ops)
  /\ filled_fields' = IF r.outcome = "filled" THEN Append(filled_fields, name)
                      ELSE filled_fields
  /\ IF Propagates(r.outcome)
       THEN pc' = "done" /\ i' = 0 /\ result' = "False"
       ELSE pc' = After(loop, i, entry).pc /\ i' = After(loop, i, entry).i
            /\ result' = result
  /\ UNCHANGED <<user_data, entry, privacy_calls, resolveVars, dropdownVars, harnessVars>>

-----------------------------------------------------------------------------
(* process_form: inputs, page scenarios and steps *)

MaxDeclared == 2
MaxAdditional == 1

Field(name, xpath, type, found) ==
  [name |-> name, xpath |-> xpath, type |-> type, found |-> found]

DeclaredDescriptors ==
  { Field("EmailAddress", "//input[@name='email']", "text", TRUE),
    Field("Country", "//select[@name='country']", "select", FALSE),
    Field("Subscribe", "//input[@name='subscribe']", "checkbox", TRUE),
    Field("Submit", "//button[@type='submit']", "submit", TRUE),
    Field("Submit", "", "submit", FALSE),
    Field("Privacy", "//input[@id='privacy']", "checkbox", TRUE),
    Field("Privacy", "//input[@id='privacy']", "checkbox", FALSE),
    Field("Privacy", "", "checkbox", TRUE) }

Additional(name, xpath, type) ==
  [field_name |-> name, xpath |-> xpath, element_type |-> type]

AdditionalDescriptors ==
  { Additional("user_email_addr", "//input[@name='email2']", "checkbox"),
    Additional("Country", "", "select"),
    Additional("captcha", "//input[@name='captcha']", "input") }

\* the keys of a dict are distinct
DistinctNames(fs) ==
  \A a, b \in 1..Len(fs) : fs[a].name = fs[b].name => a = b

Entries ==
  { [fields |-> fs, additional_fields |-> as] :
      fs \in { q \in SeqsUpTo(DeclaredDescriptors, MaxDeclared) : DistinctNames(q) },
      as \in SeqsUpTo(AdditionalDescriptors, MaxAdditional) }

FormProfiles ==
  { << Pair("Email", StrVal("johndoe@example.com")), Pair("Country", StrVal("USA")),
       Pair("Subscribe", BoolVal(TRUE)), Pair("Submit", StrVal("go")) >>,
    << Pair("Subscribe", StrVal("yes")) >>,
    << Pair("Email", StrVal("johndoe@example.com")) >>,
    << Pair("Subscribe", BoolVal(FALSE)) >> }

TextInput == [tag |-> "input", options |-> << >>, rendered |-> NothingRendered]

CountrySelect ==
  [tag |-> "select",
   options |-> << Option("Choose...", ""), Option("USA", "us"), Option("Canada", "ca") >>,
   rendered |-> << >>]

CheckboxClickable ==
  [presence |-> TRUE, visibility |-> TRUE, script |-> "element", click_ok |-> TRUE,
   label_ok |-> TRUE, script_set_ok |-> TRUE, checked |-> FALSE]

CheckboxUnreachable ==
  [presence |-> FALSE, visibility |-> FALSE, script |-> "null", click_ok |-> FALSE,
   label_ok |-> FALSE, script_set_ok |-> FALSE, checked |-> FALSE]

Scenario(located, c, typing_ok, cb) ==
  [located |-> located, control |-> c, raising |-> {}, typing_ok |-> typing_ok, cb |-> cb]

\* what the page may do when a field's element is waited for and used
PageScenarios ==
  { Scenario(FALSE, TextInput, FALSE, CheckboxUnreachable),
    Scenario(TRUE, TextInput, TRUE, CheckboxClickable),
    Scenario(TRUE, TextInput, FALSE, CheckboxUnreachable),
    Scenario(TRUE, CountrySelect, TRUE, CheckboxClickable) }

PrivacyScenario(vue, present, failing) ==
  [vue |-> vue, present |-> present, by_id |-> FALSE, selected |-> FALSE,
   scroll_ok |-> TRUE, failing |-> failing]

\* what the page may do during handle_privacy_field
PrivacyScenarios ==
  { PrivacyScenario(1, FALSE, {}),
    PrivacyScenario(0, TRUE, {1}),
    PrivacyScenario(0, FALSE, {}) }

\* where the loops stand when process_form starts
StartPosition(e) ==
  IF Len(e.fields) > 0 THEN [pc |-> "declared", i |-> 1]
  ELSE IF Len(e.additional_fields) > 0 THEN [pc |-> "additional", i |-> 1]
  ELSE [pc |-> "privacy", i |-> 0]

Init ==
  /\ user_data \in FormProfiles
  /\ entry \in Entries
  /\ pc = StartPosition(entry).pc
  /\ i = StartPosition(entry).i
  /\ filled_fields = << >>
  /\ outcomes = << >>
  /\ driver_log = << >>
  /\ privacy_calls = << >>
  /\ result = "none"
  /\ ResolverOff
  /\ DropdownOff
  /\ HarnessesOff

\* the scenario that stands for "the page was not consulted"
Untouched == Scenario(FALSE, TextInput, FALSE, CheckboxUnreachable)

\* whether declared field f gets as far as the element wait (line 95)
DeclaredAttempted(f, value) ==
  ~SubmitSkipped(f) /\ value # None /\ f.xpath # ""

\* whether additional field a gets as far as the element wait (line 159)
AdditionalAttempted(a, value) ==
  a.xpath # "" /\ value # None

\* lines 57-118: one iteration of the declared loop for field f, whose name
\* resolved to value; the page is consulted only if the field gets as far as
\* the element wait
DeclaredStep(f, value) ==
  \E sc \in (IF DeclaredAttempted(f, value) THEN PageScenarios ELSE {Untouched}) :
    FieldDone("declared", f.name, IF SubmitSkipped(f) THEN None ELSE value,
              f.xpath, DeclaredOutcome(f, value, sc))

\* the declared loop at field i: lines 70-82 resolve its name
DeclaredField ==
  /\ pc = "declared"
  /\ DeclaredStep(entry.fields[i], ResolveDeclared(entry.fields[i].name, user_data))

\* lines 121-180: one iteration of the additional loop, for field a whose
\* lowered name is name
AdditionalStep(a, name, value) ==
  \E sc \in (IF AdditionalAttempted(a, value) THEN PageScenarios ELSE {Untouched}) :
    FieldDone("additional", name, value, a.xpath, AdditionalOutcome(a, value, sc))

\* lines 123-153: the name is lowered; it is resolved only if there is an XPath
AdditionalLowered(a, name) ==
  AdditionalStep(a, name,
                 IF a.xpath = "" THEN None ELSE ValueOf(ResolveLowered(name, user_data)))

\* the additional loop at field i
AdditionalField ==
  /\ pc = "additional"
  /\ AdditionalLowered(entry.additional_fields[i],
                       PyLower(entry.additional_fields[i].field_name))

\* line 183: what one call of handle_privacy_field leaves behind
PrivacyDone(r) ==
  /\ privacy_calls' = Append(privacy_calls,
        [status |-> r.status, strategy |-> r.strategy, source |-> r.source])
  /\ driver_log' = driver_log \o
        [n \in 1..Len(r.ops) |->
           [loop |-> "privacy", i |-> PrivacyIndex(entry),
            op |-> r.ops[n].op, target |-> r.ops[n].target]]

\* lines 182-186: the consent handler, then the return value
PrivacyAndReturn ==
  /\ pc = "privacy"
  /\ IF CallsPrivacy(entry)
       THEN \E pv \in PrivacyScenarios : PrivacyDone(HandlePrivacyField(entry, pv))
       ELSE UNCHANGED <<privacy_calls, driver_log>>
  /\ result' = IF Len(filled_fields) > 0 THEN "True" ELSE "False"
  /\ pc' = "done"
  /\ i' = 0
  /\ UNCHANGED <<user_data, entry, filled_fields, outcomes, resolveVars, dropdownVars,
                 harnessVars>>

Next == DeclaredField \/ AdditionalField \/ PrivacyAndReturn

Spec == Init /\ [][Next]_vars

-----------------------------------------------------------------------------
(* Checkbox harness: one call of select_checkbox_by_xpath *)

CheckboxScenarios ==
  [presence : BOOLEAN, visibility : BOOLEAN, script : {"element", "null", "raise"},
   click_ok : BOOLEAN, label_ok : BOOLEAN, script_set_ok : BOOLEAN, checked : BOOLEAN]

InitCheckbox ==
  /\ user_data = << >>
  /\ ResolverOff
  /\ DropdownOff
  /\ FormOff
  /\ cb_in \in CheckboxScenarios
  /\ cb_out = [returned |-> FALSE, checked |-> cb_in.checked, ops |-> << >>]
  /\ cb_pc = "call"
  /\ PrivacyOff
  /\ SessionOff

\* lines 458-545: the whole of select_checkbox_by_xpath
CallSelectCheckbox ==
  /\ cb_pc = "call"
  /\ cb_out' = SelectCheckboxByXpath(cb_in)
  /\ cb_pc' = "done"
  /\ UNCHANGED <<user_data, resolveVars, dropdownVars, formVars, cb_in, privacyVars,
                 sessionVars>>

NextCheckbox == CallSelectCheckbox

SpecCheckbox == InitCheckbox /\ [][NextCheckbox]_vars

-----------------------------------------------------------------------------
(* Consent harness: one call of handle_privacy_field on one entry *)

\* entries with no Privacy field, with a Privacy descriptor whose XPath holds
\* an id, with found = False, with no XPath, with an XPath that holds no id,
\* and with the Privacy field declared second
PrivacyEntries ==
  { [fields |-> fs, additional_fields |-> << >>] :
      fs \in { << >>,
               << Field("EmailAddress", "//input[@name='email']", "text", TRUE) >>,
               << Field("Privacy", "//input[@id='privacy']", "checkbox", TRUE) >>,
               << Field("Privacy", "//input[@id='privacy']", "checkbox", FALSE) >>,
               << Field("Privacy", "", "checkbox", TRUE) >>,
               << Field("Privacy", "//input[@name='agree']", "checkbox", TRUE) >>,
               << Field("EmailAddress", "//input[@name='email']", "text", TRUE),
                  Field("Privacy", "//input[@id=\"gdpr\"]", "checkbox", TRUE) >> } }

\* what the page may do during the call: which framework-specific selector
\* finds an element (0: none), whether the XPath wait and the lookup by id
\* find one, whether it is already selected, whether scrolling works, and
\* which of the strategies raise
ConsentScenarios ==
  [vue : 0..Len(vue_privacy_selectors), present : BOOLEAN, by_id : BOOLEAN,
   selected : BOOLEAN, scroll_ok : BOOLEAN, failing : SUBSET (1..NumStrategies)]

InitPrivacy ==
  /\ user_data = << >>
  /\ ResolverOff
  /\ DropdownOff
  /\ entry \in PrivacyEntries
  /\ pc = "off"
  /\ i = 0
  /\ filled_fields = << >>
  /\ outcomes = << >>
  /\ driver_log = << >>
  /\ privacy_calls = << >>
  /\ result = "none"
  /\ CheckboxOff
  /\ pv_in \in ConsentScenarios
  /\ pv_out = [status |-> "none", strategy |-> 0, source |-> "none", attempts |-> << >>,
               ops |-> << >>]
  /\ pv_pc = "call"
  /\ SessionOff

\* lines 334-456: the whole of handle_privacy_field
CallHandlePrivacyField ==
  /\ pv_pc = "call"
  /\ pv_out' = HandlePrivacyField(entry, pv_in)
  /\ pv_pc' = "done"
  /\ UNCHANGED <<user_data, resolveVars, dropdownVars, formVars, checkboxVars, pv_in,
                 sessionVars>>

NextPrivacy == CallHandlePrivacyField

SpecPrivacy == InitPrivacy /\ [][NextPrivacy]_vars

-----------------------------------------------------------------------------
(* The session drivers: formTester.test_forms and form_submitter.process_forms *)

MaxEntries == 2

\* a form entry as the session loop reads it: error ("" if unset), the number
\* of declared fields and url ("" if unset)
SessionEntry(error, fields, url) == [error |-> error, fields |-> fields, url |-> url]

SessionEntries ==
  { SessionEntry("", 2, "http://a.example/form"),
    SessionEntry("", 1, "https://b.example/signup?x=1"),
    SessionEntry("HTTP 500", 2, "http://a.example/form"),
    SessionEntry("", 0, "http://a.example/form"),
    SessionEntry("", 1, ""),
    SessionEntry("", 1, "http://a[b@c.example/") }

\* what the reviewer may type at the prompt
Typed == {"", " ok "}

\* how a call may end other than by returning: with an exception that
\* `except Exception` catches, or with one it does not (KeyboardInterrupt,
\* SystemExit)
Raises == {"exception", "interrupt"}

\* the test of line 143 / 96 without its second half
SkipForErrorOnly(e) == e.error # ""

\* formTester 143 / form_submitter 96: error set or no fields
SkipForErrorOrFields(e) == e.error # "" \/ e.fields = 0

\* formTester 148-151 / form_submitter 101-104: no URL
SkipForUrl(e) == e.url = ""

\* urlparse(url).netloc for the URLs of the harness: what follows the first
\* "//" up to the next "/", "?" or "#"
NetLoc(url) ==
  LET slashes == { p \in 1..(Len(url) - 1) : SubSeq(url, p, p + 1) = "//" }
  IN IF slashes = {} THEN ""
     ELSE LET from == Least(slashes) + 2
              stops == { q \in from..Len(url) : SubSeq(url, q, q) \in {"/", "?", "#"} }
          IN IF stops = {} THEN SubSeq(url, from, Len(url))
             ELSE SubSeq(url, from, Least(stops) - 1)

HasChar(s, c) == \E p \in 1..Len(s) : SubSeq(s, p, p) = c

\* formTester 172: urlparse(url) raises ValueError ("Invalid IPv6 URL") when
\* the network location has one square bracket without the other
UrlParseRaises(url) == HasChar(NetLoc(url), "[") # HasChar(NetLoc(url), "]")

\* formTester 175-179: the record appended for one entry
Note(url, user_note) == [url |-> url, domain |-> NetLoc(url), user_note |-> user_note]

\* one entry of the log of what the session did
Ev(op, n, res) == [op |-> op, index |-> n, result |-> res, notes |-> << >>]

InitSession ==
  /\ user_data = << >>
  /\ ResolverOff
  /\ DropdownOff
  /\ FormOff
  /\ CheckboxOff
  /\ PrivacyOff
  /\ program \in {"test_forms", "process_forms"}
  /\ json_data \in SeqsUpTo(SessionEntries, MaxEntries)
  /\ index = 0
  /\ driver = "none"
  /\ browser = "none"
  /\ user_notes = << >>
  /\ events = << >>
  /\ s_pc = "setup"

sessionFrame == <<user_data, resolveVars, dropdownVars, formVars, checkboxVars, privacyVars>>

\* formTester 22-63, 134-137 / form_submitter 20-61, 87-90: setup_browser
\* fails before Chrome is started (imports, options, driver installation, the
\* Chrome constructor), fails in execute_script after Chrome was started, or
\* returns the driver. Whatever it raises is re-raised (line 63): an Exception
\* is caught at 185 / 131, anything else unwinds through the finally clause.
SetupBrowser ==
  /\ s_pc = "setup"
  /\ \/ /\ driver' = "bound"
        /\ browser' = "running"
        /\ events' = events \o <<Ev("launch", 0, "ok"), Ev("setup_script", 0, "ok")>>
        /\ s_pc' = "examine"
     \/ \E raised \in Raises :
          /\ driver' = "none"
          /\ browser' = "none"
          /\ events' = events \o <<Ev("launch", 0, raised)>>
                         \o (IF raised = "exception" THEN <<Ev("critical", 0, raised)>> ELSE << >>)
          /\ s_pc' = IF raised = "exception" THEN "finally" ELSE "unwinding"
     \/ \E raised \in Raises :
          /\ driver' = "none"
          /\ browser' = "running"
          /\ events' = events \o <<Ev("launch", 0, "ok"), Ev("setup_script", 0, raised)>>
                         \o (IF raised = "exception" THEN <<Ev("critical", 0, raised)>> ELSE << >>)
          /\ s_pc' = IF raised = "exception" THEN "finally" ELSE "unwinding"
  /\ UNCHANGED <<program, json_data, index, user_notes>>
  /\ UNCHANGED sessionFrame

\* an iteration that goes from the URL check straight to process_form
ExamineEntryNoNavigation ==
  /\ s_pc = "examine"
  /\ index < Len(json_data)
  /\ index' = index + 1
  /\ events' = Append(events, [op |-> "accept", index |-> index + 1,
                                result |-> json_data[index + 1].url, notes |-> << >>])
  /\ s_pc' = "process"
  /\ UNCHANGED <<program, json_data, driver, browser, user_notes>>
  /\ UNCHANGED sessionFrame

\* formTester 140-151 / form_submitter 93-104: the next entry is taken and
\* either skipped or accepted for navigation
ExamineEntry ==
  /\ s_pc = "examine"
  /\ index < Len(json_data)
  /\ index' = index + 1
  /\ LET form_entry == json_data[index + 1]
     IN IF SkipForErrorOrFields(form_entry)
          THEN /\ events' = Append(events, Ev("skip", index + 1, "error or no fields"))
               /\ s_pc' = "examine"
        ELSE IF SkipForUrl(form_entry)
          THEN /\ events' = Append(events, Ev("skip", index + 1, "no url"))
               /\ s_pc' = "examine"
        ELSE /\ events' = Append(events, Ev("accept", index + 1, form_entry.url))
             /\ s_pc' = "navigate"
  /\ UNCHANGED <<program, json_data, driver, browser, user_notes>>
  /\ UNCHANGED sessionFrame

\* formTester 140, 188 / form_submitter 93, 134: the loop is exhausted
EndOfLoop ==
  /\ s_pc = "examine"
  /\ index = Len(json_data)
  /\ s_pc' = "finally"
  /\ UNCHANGED <<program, json_data, index, driver, browser, user_notes, events>>
  /\ UNCHANGED sessionFrame

\* the handler of lines 181-183 / 127-129 with `break` for `continue`
AfterRaiseEndsLoop(op, raised) ==
  /\ events' = events \o <<Ev(op, index, raised)>>
                  \o (IF raised = "exception" THEN <<Ev("caught", index, op)>> ELSE << >>)
  /\ s_pc' = IF raised = "exception" THEN "finally" ELSE "unwinding"

\* lines 181-183 / 127-129 and the propagation of what they do not catch
AfterRaise(op, raised) ==
  /\ events' = events \o <<Ev(op, index, raised)>>
                  \o (IF raised = "exception" THEN <<Ev("caught", index, op)>> ELSE << >>)
  /\ s_pc' = IF raised = "exception" THEN "examine" ELSE "unwinding"

\* formTester 157 / form_submitter 110: driver.get(url)
Navigate ==
  /\ s_pc = "navigate"
  /\ \/ /\ events' = Append(events, Ev("get", index, json_data[index].url))
        /\ s_pc' = "process"
     \/ \E raised \in Raises : AfterRaise("get", raised)
  /\ UNCHANGED <<program, json_data, index, driver, browser, user_notes>>
  /\ UNCHANGED sessionFrame

\* formTester 160 / form_submitter 113-125: process_form returns True or
\* False; it catches Exception itself (form_interaction 188), so what leaves
\* it is raised in that handler or is not an Exception
CallProcessForm ==
  /\ s_pc = "process"
  /\ \/ \E success \in {"True", "False"} :
          /\ events' = Append(events, Ev("process_form", index, success))
          /\ s_pc' = IF program = "test_forms" THEN "prompt" ELSE "examine"
     \/ \E raised \in Raises : AfterRaise("process_form", raised)
  /\ UNCHANGED <<program, json_data, index, driver, browser, user_notes>>
  /\ UNCHANGED sessionFrame

\* formTester 163-183: the prompt, urlparse(url), and the note appended
\* whatever was typed; the ValueError of urlparse is caught at 181 and the
\* loop continues without a note
Prompt ==
  /\ s_pc = "prompt"
  /\ \/ \E typed \in Typed :
          IF UrlParseRaises(json_data[index].url)
            THEN /\ events' = events \o <<Ev("input", index, typed),
                                          Ev("urlparse", index, "exception"),
                                          Ev("caught", index, "urlparse")>>
                 /\ UNCHANGED user_notes
                 /\ s_pc' = "examine"
            ELSE /\ events' = Append(events, Ev("input", index, typed))
                 /\ user_notes' = Append(user_notes, Note(json_data[index].url, PyStrip(typed)))
                 /\ s_pc' = "examine"
     \/ \E raised \in Raises :
          /\ AfterRaise("input", raised)
          /\ UNCHANGED user_notes
  /\ UNCHANGED <<program, json_data, index, driver, browser>>
  /\ UNCHANGED sessionFrame

\* formTester 190-194 / form_submitter 136-140: quit the driver if there is
\* one; what quit raises is swallowed, the browser then being gone or not
QuitOutcomes ==
  IF driver = "none" THEN { [ev |-> << >>, browser |-> browser] }
  ELSE { [ev |-> <<Ev("quit", 0, "ok")>>, browser |-> "quit"],
         [ev |-> <<Ev("quit", 0, "raised")>>, browser |-> "quit"],
         [ev |-> <<Ev("quit", 0, "raised")>>, browser |-> "running"] }

\* the save placed after the try statement instead of in its finally clause:
\* it is not reached while something is propagating
SaveOutsideFinally ==
  IF program # "test_forms" \/ user_notes = << >> \/ s_pc = "unwinding" THEN { << >> }
  ELSE { << [op |-> "save", index |-> 0, result |-> res, notes |-> user_notes] >> :
           res \in {"saved", "not written", "raised"} }

\* formTester 197-198: save_user_notes_to_csv(user_notes) if there are notes;
\* it returns the file name, returns None after logging an error (117-119),
\* or raises from os.makedirs (86)
SaveOutcomes ==
  IF program # "test_forms" \/ user_notes = << >> THEN { << >> }
  ELSE { << [op |-> "save", index |-> 0, result |-> res, notes |-> user_notes] >> :
           res \in {"saved", "not written", "raised"} }

\* formTester 188-200 / form_submitter 134-140: the finally clause and what
\* follows it
Finally ==
  /\ s_pc \in {"finally", "unwinding"}
  /\ \E q \in QuitOutcomes, sv \in SaveOutcomes :
       /\ browser' = q.browser
       /\ events' = events \o q.ev \o sv
       /\ s_pc' = IF s_pc = "unwinding" \/ (sv # << >> /\ sv[1].result = "raised")
                  THEN "raised" ELSE "returned"
  /\ UNCHANGED <<program, json_data, index, driver, user_notes>>
  /\ UNCHANGED sessionFrame

NextSession ==
  \/ SetupBrowser
  \/ ExamineEntry
  \/ EndOfLoop
  \/ Navigate
  \/ CallProcessForm
  \/ Prompt
  \/ Finally

SpecSession == InitSession /\ [][NextSession]_vars

-----------------------------------------------------------------------------
(* Claims about field resolution, checked under SpecResolve *)

\* name is listed verbatim among the aliases of table entry k, and that
\* entry's canonical key is a profile key
ListedFor(name, k) ==
  /\ \E j \in 1..Len(field_mappings[k].possible_fields) :
        field_mappings[k].possible_fields[j] = name
  /\ \E j \in 1..Len(user_data) : user_data[j].key = field_mappings[k].user_key

\* profile[key], by quantification over the profile's entries
IsProfileValueOf(v, key) ==
  \E j \in 1..Len(user_data) : user_data[j].key = key /\ user_data[j].value = v

\* C1 (as claimed): a field whose name is verbatim a profile key resolves to
\* exactly that key's value, in the declared loop and in the additional loop.
C1_ExactMatchPrecedence ==
  (mode \in {"declared", "additional"} /\ HasKey(user_data, field_name))
    => IsProfileValueOf(user_value, field_name)

\* C2: a declared field resolves to profile[name] if name is a profile key;
\* otherwise to profile[k] for the first canonical key k in declaration order
\* that lists name and is a profile key; otherwise to no value. A value is
\* never produced by substring containment alone.
C2_DeclaredResolution ==
  mode = "declared" =>
    /\ HasKey(user_data, field_name) => IsProfileValueOf(user_value, field_name)
    /\ ~HasKey(user_data, field_name) =>
         \/ \E k \in 1..Len(field_mappings) :
              /\ ListedFor(field_name, k)
              /\ \A j \in 1..(k - 1) : ~ListedFor(field_name, j)
              /\ IsProfileValueOf(user_value, field_mappings[k].user_key)
         \/ /\ \A k \in 1..Len(field_mappings) : ~ListedFor(field_name, k)
            /\ user_value = None

\* C2 witness: a declared field that is no profile key and is listed for two
\* canonical keys of the profile has been resolved through the alias table.
C2_Witness ==
  /\ mode = "declared"
  /\ ~HasKey(user_data, field_name)
  /\ \E k1, k2 \in 1..Len(field_mappings) :
        k1 < k2 /\ ListedFor(field_name, k1) /\ ListedFor(field_name, k2)
  /\ user_value # None

\* C2 witness of the substring case: a declared field that is a substring of
\* a profile key, and neither a key nor an alias, resolved to no value.
C2_WitnessSubstring ==
  /\ mode = "declared"
  /\ \E j \in 1..Len(user_data) :
        field_name # "" /\ PyIn(field_name, user_data[j].key)
  /\ user_value = None

\* name equals, up to letter case, an alias of table entry k whose canonical
\* key is a profile key
ListedIgnoringCaseFor(name, k) ==
  /\ \E j \in 1..Len(field_mappings[k].possible_fields) :
        PyLower(field_mappings[k].possible_fields[j]) = PyLower(name)
  /\ \E j \in 1..Len(user_data) : user_data[j].key = field_mappings[k].user_key

\* C3 (as claimed): a declared field that is no profile key and differs only
\* in letter case from a synonym of canonical key k, with k in the profile,
\* resolves to profile[k].
C3_AliasCaseInsensitive ==
  (mode = "declared" /\ ~HasKey(user_data, field_name)) =>
    \A k \in 1..Len(field_mappings) :
      (ListedIgnoringCaseFor(field_name, k)
         /\ \A j \in 1..(k - 1) : ~ListedIgnoringCaseFor(field_name, j))
        => IsProfileValueOf(user_value, field_mappings[k].user_key)

-----------------------------------------------------------------------------
(* Claims about process_form, checked under Spec *)

\* the number of fields of the entry, declared and additional
TotalFields == Len(entry.fields) + Len(entry.additional_fields)

\* the driver operations performed for field k of `loop`
OpsOf(loop, k) ==
  { n \in 1..Len(driver_log) : driver_log[n].loop = loop /\ driver_log[n].i = k }

\* the names of the operations performed for field k of `loop`
OpNamesOf(loop, k) == { driver_log[n].op : n \in OpsOf(loop, k) }

\* the declared type of the field an outcome record is about
TypeOf(rec) ==
  IF rec.loop = "declared" THEN entry.fields[rec.i].type
  ELSE entry.additional_fields[rec.i].element_type

\* the targets of the two framework-specific probes, which are not locators
\* of any descriptor
IsVueSelector(target) ==
  \E k \in 1..Len(vue_privacy_selectors) : vue_privacy_selectors[k] = target

\* C4 (as claimed): no driver operation is performed for a declared field
\* whose descriptor has found = false or an empty locator, nor for an
\* additional field with an empty locator, and the consent handler performs
\* no operation on the Privacy descriptor's locator (or the id taken from it)
\* when that descriptor has found = false or an empty locator.
C4_NeverAttemptedWhenNotFound ==
  \A n \in 1..Len(driver_log) :
    LET op == driver_log[n]
    IN /\ op.loop = "declared" =>
            entry.fields[op.i].found /\ entry.fields[op.i].xpath # ""
       /\ op.loop = "additional" => entry.additional_fields[op.i].xpath # ""
       /\ (op.loop = "privacy" /\ ~IsVueSelector(op.target)) =>
            /\ op.i # 0
            /\ entry.fields[op.i].found /\ entry.fields[op.i].xpath # ""

\* C5: no driver operation is ever performed for the declared field named
\* Submit, with an empty or a non-empty locator and whether or not the
\* profile has a key Submit: the field is never waited for, clicked, selected
\* in or typed into, it is never recorded as filled, and with a locator its
\* only outcome is that the locator was logged.
C5_SubmitNeverActivated ==
  /\ \A n \in 1..Len(driver_log) :
        driver_log[n].loop = "declared" => entry.fields[driver_log[n].i].name # "Submit"
  /\ \A k \in 1..Len(outcomes) :
        (outcomes[k].loop = "declared" /\ outcomes[k].name = "Submit") =>
          /\ ~outcomes[k].committed /\ outcomes[k].typed = "" /\ outcomes[k].path = "none"
          /\ entry.fields[outcomes[k].i].xpath # "" => outcomes[k].outcome = "submit_logged"
          /\ entry.fields[outcomes[k].i].xpath = "" =>
               outcomes[k].outcome \in {"skipped_no_match", "skipped_no_locator"}
  /\ \A k \in 1..Len(filled_fields) : filled_fields[k] # "Submit"

\* C5 witness: a Submit descriptor with a locator has been passed over under a
\* profile that has a value for the key Submit, and the call has returned.
C5_Witness ==
  /\ pc = "done"
  /\ HasKey(user_data, "Submit")
  /\ \E k \in 1..Len(outcomes) :
        /\ outcomes[k].name = "Submit" /\ outcomes[k].outcome = "submit_logged"
        /\ entry.fields[outcomes[k].i].xpath # ""

\* C5 witness of the empty locator: the Submit field fell through to the
\* resolution, resolved to the profile's value and stopped at the locator test.
C5_WitnessEmptyLocator ==
  /\ pc = "done"
  /\ \E k \in 1..Len(outcomes) :
        /\ outcomes[k].name = "Submit" /\ outcomes[k].outcome = "skipped_no_locator"
        /\ outcomes[k].value # None

\* C6 (as claimed): a field is recorded as filled only if its value was
\* committed; a dropdown that ends with nothing selected or a checkbox on
\* which every strategy failed is recorded as an interaction failure; and the
\* returned flag is true exactly if some field's value was committed.
C6_FilledOnlyIfCommitted ==
  /\ \A k \in 1..Len(outcomes) :
        /\ outcomes[k].outcome = "filled" => outcomes[k].committed
        /\ (outcomes[k].path \in {"dropdown", "checkbox"} /\ ~outcomes[k].committed) =>
             outcomes[k].outcome = "interaction_failed"
  /\ result # "none" =>
       (result = "True" <=> \E k \in 1..Len(outcomes) : outcomes[k].committed)

\* the terminal outcomes of a field
TerminalOutcomes ==
  {"filled", "skipped_no_match", "skipped_no_locator", "element_not_found",
   "interaction_failed"}

\* C7: the fields are processed one by one in order, declared fields first,
\* each exactly once and each with one terminal outcome (a Submit field with
\* a locator is passed over with its locator logged); whatever the outcome of
\* a field, the following fields are processed, so that the consent step and
\* the return are reached only with every field processed; process_form
\* returns True or False and never raises.
C7_FieldIsolation ==
  /\ Len(outcomes) <= TotalFields
  /\ \A k \in 1..Len(outcomes) :
        /\ k <= Len(entry.fields) =>
             /\ outcomes[k].loop = "declared" /\ outcomes[k].i = k
             /\ outcomes[k].name = entry.fields[k].name
        /\ k > Len(entry.fields) =>
             /\ outcomes[k].loop = "additional"
             /\ outcomes[k].i = k - Len(entry.fields)
        /\ \/ outcomes[k].outcome \in TerminalOutcomes
           \/ /\ outcomes[k].outcome = "submit_logged"
              /\ outcomes[k].name = "Submit" /\ outcomes[k].loop = "declared"
  /\ pc = "declared" => Len(outcomes) = i - 1
  /\ pc = "additional" => Len(outcomes) = Len(entry.fields) + i - 1
  /\ pc \in {"privacy", "done"} => Len(outcomes) = TotalFields
  /\ pc = "done" <=> result \in {"True", "False"}
  /\ pc # "done" => result = "none"

\* C7 witness: the call has returned; one field's interaction raised, a later
\* field's element wait timed out, and a field after both was filled.
C7_Witness ==
  /\ pc = "done"
  /\ \E a, b, c \in 1..Len(outcomes) :
        /\ a < b /\ b < c
        /\ outcomes[a].outcome = "interaction_failed"
        /\ outcomes[b].outcome = "element_not_found"
        /\ outcomes[c].outcome = "filled" /\ outcomes[c].committed

\* the commit path the claim names for a declared type, an element tag and a
\* resolved value
ClaimedPath(type, tag, value) ==
  IF type = "select" \/ tag = "select" THEN "dropdown"
  ELSE IF type = "checkbox" /\ value.kind = "bool" THEN "checkbox"
  ELSE "text"

\* the operations that belong to each commit path
DropdownOps == {"handle_dropdown"}
CheckboxOps ==
  {"wait_present", "wait_visible", "script_xpath", "click", "label_click",
   "script_set_checked"}
TextOps == {"clear", "send_keys"}

\* C8: for every field that resolved to a value and whose element was
\* located, the path that ran is the dropdown selector if the type is select
\* or the element's tag is select, else the checkbox handler if the type is
\* checkbox and the value is a boolean, else clear-and-set of the value's
\* text; and only that path's operations were performed for the field.
C8_DispatchByKind ==
  \A k \in 1..Len(outcomes) :
    LET rec == outcomes[k]
        ops == OpNamesOf(rec.loop, rec.i)
    IN ("wait_clickable" \in ops /\ rec.outcome # "element_not_found") =>
         /\ rec.value # None
         /\ rec.path = ClaimedPath(TypeOf(rec), rec.tag, rec.value)
         /\ rec.path = "dropdown" =>
              DropdownOps \subseteq ops /\ ops \cap (CheckboxOps \cup TextOps) = {}
         /\ rec.path = "checkbox" =>
              /\ ops \cap CheckboxOps # {}
              /\ ops \cap (DropdownOps \cup TextOps) = {}
         /\ rec.path = "text" =>
              /\ "clear" \in ops /\ ops \cap (DropdownOps \cup CheckboxOps) = {}
              /\ "send_keys" \in ops => rec.typed = PyStr(rec.value)

\* C8 witness: the call has returned with a field committed by the dropdown
\* selector, a field handed to the checkbox handler, and a checkbox-typed
\* field with a non-boolean value that was cleared and typed into.
C8_Witness ==
  /\ pc = "done"
  /\ \E a, b, c \in 1..Len(outcomes) :
        /\ outcomes[a].path = "dropdown"
        /\ outcomes[b].path = "checkbox"
        /\ outcomes[c].path = "text" /\ TypeOf(outcomes[c]) = "checkbox"
        /\ outcomes[c].value.kind = "str" /\ outcomes[c].typed # ""

\* C8 witness of the detected kind: a field whose declared type is not select
\* went to the dropdown selector because the located element is a select.
C8_WitnessByTag ==
  \E k \in 1..Len(outcomes) :
    /\ outcomes[k].path = "dropdown" /\ TypeOf(outcomes[k]) # "select"
    /\ outcomes[k].tag = "select"

\* C9: handle_privacy_field is called exactly once per call of process_form,
\* after every declared and additional field has its outcome and before the
\* return, whether or not a Privacy field is declared and whatever the fields'
\* outcomes; none of its driver operations precedes an operation of a field.
C9_PrivacyExactlyOnce ==
  /\ Len(privacy_calls) <= 1
  /\ pc = "done" <=> Len(privacy_calls) = 1
  /\ Len(privacy_calls) = 1 => Len(outcomes) = TotalFields
  /\ \A a, b \in 1..Len(driver_log) :
        (a < b /\ driver_log[a].loop = "privacy") => driver_log[b].loop = "privacy"
  /\ (pc # "done" /\ driver_log # << >>) => driver_log[Len(driver_log)].loop # "privacy"

\* C9 witness: the call has returned for an entry that declares no Privacy
\* field and in which a field failed; the consent handler ran once.
C9_Witness ==
  /\ pc = "done"
  /\ PrivacyIndex(entry) = 0
  /\ Len(privacy_calls) = 1
  /\ \E k \in 1..Len(outcomes) :
        outcomes[k].outcome \in {"element_not_found", "interaction_failed"}

\* C9 witness with a Privacy field declared: it was processed by the declared
\* loop and then the consent handler ran once on its locator.
C9_WitnessDeclared ==
  /\ pc = "done"
  /\ PrivacyIndex(entry) # 0
  /\ Len(privacy_calls) = 1
  /\ \E n \in 1..Len(driver_log) :
        driver_log[n].loop = "privacy" /\ driver_log[n].op = "strategy"

-----------------------------------------------------------------------------
(* Claims about handle_dropdown, checked under SpecDropdown *)

\* the label (visible text) of some option equals the desired value's text
SomeLabelEquals(text) == \E k \in 1..Len(control.options) : control.options[k].text = text

\* the native cascade order the claim states
ClaimedNativeOrder == <<"text", "value", "partial", "last", "index">>

\* C10: on a native select the strategies are attempted in the order label,
\* value attribute, case-insensitive substring (first qualifying option in
\* declared order), fallback (last valid option, then index 1); a strategy is
\* attempted only after every earlier one failed, nothing is attempted after
\* a success, so a call makes at most one selection; and when an option's
\* label equals the desired value (and the driver performs that selection)
\* the label strategy makes the one selection.
C10_NativeCascadeOrder ==
  (dd_pc = "done" /\ control.tag = "select") =>
    LET a == dd.attempts
        v == PyStr(desired)
        n == Len(a)
    IN /\ n >= 1 /\ n <= Len(ClaimedNativeOrder)
       /\ \A k \in 1..n : a[k].strategy = ClaimedNativeOrder[k]
       /\ \A k \in 1..(n - 1) : ~a[k].ok
       /\ Cardinality({ k \in 1..n : a[k].ok }) <= 1
       /\ n < Len(ClaimedNativeOrder) => a[n].ok
       /\ a[n].ok <=> dd.selected # 0
       /\ (SomeLabelEquals(v) /\ "text" \notin raising) =>
            /\ a = << [strategy |-> "text", ok |-> TRUE] >>
            /\ control.options[dd.selected].text = v
       /\ (a[n].strategy = "value" /\ a[n].ok) =>
            control.options[dd.selected].value = v
       /\ (a[n].strategy = "partial" /\ a[n].ok) =>
            /\ PyIn(PyLower(v), PyLower(control.options[dd.selected].text))
            /\ \A j \in 1..(dd.selected - 1) :
                  ~PyIn(PyLower(v), PyLower(control.options[j].text))

\* C10 witness: a native call in which the label and value strategies failed
\* and the substring strategy made the selection, on an option that is not
\* the first of the list.
C10_Witness ==
  /\ dd_pc = "done" /\ control.tag = "select"
  /\ Len(dd.attempts) = 3
  /\ dd.attempts[3] = [strategy |-> "partial", ok |-> TRUE]
  /\ dd.selected > 1

\* C10 witness of the exact-label case: one selection, by the first strategy.
C10_WitnessExactLabel ==
  /\ dd_pc = "done" /\ control.tag = "select"
  /\ SomeLabelEquals(PyStr(desired))
  /\ dd.attempts = << [strategy |-> "text", ok |-> TRUE] >>

\* the placeholder tokens the claims name
ClaimedPlaceholderTokens == {"select", "choose", "pick", "---"}

\* an entry such as "-- Select --" or "Choose...": its text contains a
\* placeholder token, whatever the letter case
IsPlaceholderEntry(text) == \E t \in ClaimedPlaceholderTokens : PyIn(t, PyLower(text))

\* an entry whose text is non-empty and that is not a placeholder entry
IsRealEntry(text) == PyStrip(text) # "" /\ ~IsPlaceholderEntry(text)

\* no option of the native control matches v by label, by value attribute or
\* by case-insensitive substring of the label
NoContentMatch(v) ==
  \A k \in 1..Len(control.options) :
    /\ control.options[k].text # v
    /\ control.options[k].value # v
    /\ ~PyIn(PyLower(v), PyLower(control.options[k].text))

\* C11 (as claimed): on a native select with no label, value or substring
\* match for the desired value, the option selected is the last one, in
\* declared order, whose text is non-empty and is not a placeholder entry
\* such as "-- Select --" or "Choose..." (or one with the same label); a
\* placeholder entry is never selected while another option exists, wherever
\* the placeholder sits.
C11_DropdownFallback ==
  (dd_pc = "done" /\ control.tag = "select" /\ raising = {}
     /\ NoContentMatch(PyStr(desired))
     /\ \E k \in 1..Len(control.options) : IsRealEntry(control.options[k].text)) =>
    /\ dd.selected # 0
    /\ \E k \in 1..Len(control.options) :
          /\ IsRealEntry(control.options[k].text)
          /\ \A j \in (k + 1)..Len(control.options) : ~IsRealEntry(control.options[j].text)
          /\ control.options[dd.selected].text = control.options[k].text

\* an item that is empty or is exactly a placeholder token
IsEmptyOrToken(text) == PyStrip(text) = "" \/ PyLower(text) \in ClaimedPlaceholderTokens

\* no item of the opened custom dropdown matches v, exactly or as a substring
NoItemMatch(items, v) ==
  \A k \in 1..Len(items) : ~PyIn(PyLower(v), PyLower(items[k]))

\* C12 (as claimed): when nothing matches the desired value and every item is
\* empty or a placeholder token, the item selected is the one at ordinal
\* position 1 (the second of the list), on a native select and on a custom
\* dropdown alike.
C12_AllPlaceholdersOrdinalOne ==
  (dd_pc = "done" /\ raising = {}) =>
    /\ (control.tag = "select" /\ Len(control.options) >= 2
          /\ NoContentMatch(PyStr(desired))
          /\ \A k \in 1..Len(control.options) : IsEmptyOrToken(control.options[k].text))
         => dd.selected = 2
    /\ (control.tag # "select" /\ Len(DropdownItems(control)) >= 2
          /\ NoItemMatch(DropdownItems(control), PyStr(desired))
          /\ \A k \in 1..Len(DropdownItems(control)) :
                IsEmptyOrToken(DropdownItems(control)[k]))
         => dd.selected = 2

\* the control exposes at least one usable item: a native option, or an item
\* of the opened custom dropdown, that is non-empty and not a placeholder token
HasUsableItem ==
  IF control.tag = "select"
  THEN \E k \in 1..Len(control.options) : ~IsEmptyOrToken(control.options[k].text)
  ELSE \E k \in 1..Len(DropdownItems(control)) : ~IsEmptyOrToken(DropdownItems(control)[k])

\* C13 (as claimed): a call of handle_dropdown returns to its caller; when
\* the driver performs what it is asked and the control has a usable item,
\* some option is selected; and a call that selected nothing returns a value
\* that differs from the None a successful call returns.
C13_SelectedOrUnselectedReported ==
  dd_pc = "done" =>
    /\ (raising = {} /\ HasUsableItem) => dd.selected # 0
    /\ dd.selected # 0 => dd.returned = None
    /\ dd.selected = 0 => dd.returned # None

-----------------------------------------------------------------------------
(* Claims about the checkbox handlers, checked under SpecCheckbox and
   SpecPrivacy *)

CheckboxLocated == cb_in.presence \/ cb_in.visibility \/ cb_in.script = "element"

InteractionOps == {"click", "label_click", "script_set_checked"}

ConsentLocated == pv_out.source \in {"vue", "xpath", "id"}

\* the consent handler's half of C14: an already selected consent checkbox
\* is reported as such and no strategy is attempted on it
ConsentIdempotent ==
  (pv_pc = "done" /\ ConsentLocated /\ pv_in.selected) =>
    /\ pv_out.status = "already_selected"
    /\ pv_out.attempts = << >>
    /\ \A k \in 1..Len(pv_out.ops) : pv_out.ops[k].op \notin {"scroll", "strategy"}

\* C14: when the located checkbox is already checked, the handler performs no
\* click, no label click and no script mutation, reports success and leaves
\* the checkbox checked; for select_checkbox_by_xpath and for the consent
\* handler alike.
C14_CheckboxIdempotence ==
  /\ (cb_pc = "done" /\ CheckboxLocated /\ cb_in.checked) =>
       /\ cb_out.returned
       /\ cb_out.checked
       /\ \A k \in 1..Len(cb_out.ops) : cb_out.ops[k] \notin InteractionOps
  /\ ConsentIdempotent

\* the order of the consent strategies as claimed
ClaimedConsentOrder ==
  << "click", "script_click", "label_click", "frame_click", "set_checked" >>

\* the call reached the strategy loop of lines 444-453
CascadeRan == pv_pc = "done" /\ ConsentLocated /\ ~pv_in.selected /\ pv_in.scroll_ok

\* strategy n raised when it was called in this call
StrategyFailed(n) == ~StrategyReturns(n, LocatePrivacy(entry, pv_in).checkbox_id, pv_in)

\* strategy n was called in this call
StrategyAttempted(n) == \E k \in 1..Len(pv_out.attempts) : pv_out.attempts[k] = n

C15_WitnessAllFailed ==
  CascadeRan /\ pv_out.status = "failed" /\ Len(pv_out.attempts) = NumStrategies

-----------------------------------------------------------------------------
(* Claims about the session drivers, checked under SpecSession *)

\* an entry the session is to skip: error set, no fields, or no URL
Skippable(e) == e.error # "" \/ e.fields = 0 \/ e.url = ""

EventsWith(op) == { k \in 1..Len(events) : events[k].op = op }

SessionEnded == s_pc \in {"finally", "unwinding", "returned", "raised"}

\* C16: an entry with error set, with no fields or with no URL causes no
\* navigation, no process_form call and no prompt (the only thing logged for
\* it is one skip), adds no note, and the loop goes on to the next entry.
C16_SkipRule ==
  /\ \A n \in 1..index :
       Skippable(json_data[n]) =>
         /\ \A k \in 1..Len(events) : events[k].index = n => events[k].op = "skip"
         /\ Cardinality({ k \in EventsWith("skip") : events[k].index = n }) = 1
         /\ (SessionEnded /\ index = n) => n = Len(json_data)
  /\ Len(user_notes) <= Cardinality({ k \in EventsWith("input") : events[k].result \in Typed })
  /\ Len(user_notes) <= Cardinality({ n \in 1..index : ~Skippable(json_data[n]) })

\* C16 witness: the first entry was skipped, the second one was processed and
\* its note is the only one returned
C16_Witness ==
  /\ s_pc = "returned"
  /\ Len(json_data) = 2
  /\ Skippable(json_data[1])
  /\ ~Skippable(json_data[2])
  /\ Len(user_notes) = 1
  /\ user_notes[1].url = json_data[2].url

\* C16 witness in batch mode: the first entry was skipped and process_form
\* was called for the second
C16_WitnessBatch ==
  /\ program = "process_forms"
  /\ s_pc = "returned"
  /\ Len(json_data) = 2
  /\ Skippable(json_data[1])
  /\ \E k \in EventsWith("process_form") : events[k].index = 2

IsTypedInput(e) == e.op = "input" /\ e.result \in Typed

\* the prompts that were answered, in the order they happened
AnsweredPrompts == SelectSeq(events, IsTypedInput)

\* the URLs of the harness that urlparse rejects
RejectedUrls == { e.url : e \in { s \in SessionEntries : UrlParseRaises(s.url) } }

\* what is kept of each text that may be typed
StrippedNote == [t \in Typed |-> PyStrip(t)]

\* an answered prompt whose URL urlparse accepted
IsRecordedInput(e) == IsTypedInput(e) /\ json_data[e.index].url \notin RejectedUrls

RecordedPrompts == SelectSeq(events, IsRecordedInput)

\* the notes are those of the given prompts, in order
NotesOf(prompts) ==
  /\ Len(user_notes) = Len(prompts)
  /\ \A j \in 1..Len(user_notes) :
       /\ user_notes[j].url = json_data[prompts[j].index].url
       /\ user_notes[j].user_note = StrippedNote[prompts[j].result]

\* the notes are those of the answered prompts whose URL was parsed, in order
NotesAreRecordedPrompts == NotesOf(RecordedPrompts)

\* the notes are those of the answered prompts, in order
NotesAreAnsweredPrompts == NotesOf(AnsweredPrompts)

\* C17: an exception raised by navigation, form processing or the prompt of
\* entry n (or by what follows the prompt in the same iteration) is caught;
\* nothing more is done for entry n; every later entry is still examined; and
\* the notes of the entries before n are kept.
C17_EntryIsolation ==
  /\ \A k \in EventsWith("caught") :
       LET n == events[k].index
       IN /\ k > 1
          /\ events[k - 1].op \in {"get", "process_form", "input", "urlparse"}
          /\ events[k - 1].index = n
          /\ events[k - 1].result = "exception"
          /\ \A j \in (k + 1)..Len(events) : events[j].index # n
          /\ (SessionEnded /\ n < Len(json_data)) =>
               \E j \in (k + 1)..Len(events) :
                  events[j].index = n + 1 /\ events[j].op \in {"skip", "accept"}
  /\ \A k \in 1..Len(events) :
       (events[k].op \in {"get", "process_form", "input", "urlparse"} /\ events[k].result = "exception") =>
          (k < Len(events) /\ events[k + 1].op = "caught")
  /\ NotesAreRecordedPrompts

\* C17 witness: navigation of the first entry raised, and the second entry
\* was processed and its note recorded
C17_Witness ==
  /\ s_pc = "returned"
  /\ Len(json_data) = 2
  /\ \E k \in EventsWith("caught") : events[k].index = 1 /\ events[k].result = "get"
  /\ \E k \in EventsWith("input") : events[k].index = 2 /\ events[k].result \in Typed
  /\ Len(user_notes) = 1

\* C17 witness: the prompt of the second entry raised and the note of the
\* first entry is still there
C17_WitnessEarlierKept ==
  /\ s_pc = "returned"
  /\ \E k \in EventsWith("caught") : events[k].index = 2 /\ events[k].result = "input"
  /\ Len(user_notes) = 1
  /\ user_notes[1].url = json_data[1].url

SessionOver == s_pc \in {"returned", "raised"}

\* Chrome was started during this run
BrowserCreated == \E k \in EventsWith("launch") : events[k].result = "ok"

\* the session driver called quit exactly once, and nothing was asked of the
\* driver afterwards
QuitOnceAndLast ==
  /\ Cardinality(EventsWith("quit")) = 1
  /\ \A k \in EventsWith("quit") :
       \A j \in (k + 1)..Len(events) : events[j].op \notin {"get", "process_form", "setup_script", "quit"}

\* the cleanup that does hold: a run whose setup_browser returned quits the
\* driver exactly once on every exit path
CleanupWhenSetupReturned == (SessionOver /\ driver = "bound") => QuitOnceAndLast

\* C18: when the run is over, a browser that was started during it has been
\* quit exactly once, on every exit path, a failure of setup_browser after
\* the launch included; and the driver is not used after the quit.
C18_DriverCleanup ==
  (SessionOver /\ BrowserCreated) => QuitOnceAndLast

\* C19: however test_forms stops, the notes gathered so far are passed to
\* save_user_notes_to_csv exactly once, all of them, and after the attempt to
\* quit the driver, whether or not that attempt failed.
C19_NotesSurvive ==
  /\ Cardinality(EventsWith("save")) <= 1
  /\ (SessionOver /\ program = "test_forms" /\ user_notes # << >>) =>
       /\ Cardinality(EventsWith("save")) = 1
       /\ \A k \in EventsWith("save") :
            /\ events[k].notes = user_notes
            /\ k = Len(events)
            /\ driver = "bound" => (k > 1 /\ events[k - 1].op = "quit")

\* C19 witness: quitting the driver failed and the notes were still saved
C19_Witness ==
  /\ SessionOver
  /\ Len(user_notes) = 2
  /\ \E k \in EventsWith("quit") : events[k].result = "raised"
  /\ \E k \in EventsWith("save") : events[k].notes = user_notes

\* C19 witness: the run was cut short by something no handler catches, after
\* a note had been gathered, and the note was saved
C19_WitnessUnwinding ==
  /\ s_pc = "raised"
  /\ \E k \in 1..Len(events) : events[k].result = "interrupt"
  /\ \E k \in EventsWith("save") : events[k].notes = user_notes /\ Len(user_notes) = 1

-----------------------------------------------------------------------------
(* Loose matching of additional fields, checked under SpecResolve *)

\* a and b, compared without regard to letter case, contain one another
ContainsEitherWay(a, b) ==
  PyIn(PyLower(a), PyLower(b)) \/ PyIn(PyLower(b), PyLower(a))

\* the profile entries whose key matches the field name loosely
LooselyMatchingKeys == { j \in 1..Len(user_data) : ContainsEitherWay(user_data[j].key, field_name) }

\* the alias table entries whose canonical key is in the profile and one of
\* whose aliases matches the field name loosely
LooselyMatchingAliases ==
  { k \in 1..Len(field_mappings) :
      /\ \E j \in 1..Len(user_data) : user_data[j].key = field_mappings[k].user_key
      /\ \E a \in 1..Len(field_mappings[k].possible_fields) :
            ContainsEitherWay(field_mappings[k].possible_fields[a], field_name) }

\* C20: an additional field resolves to the value of a profile key that
\* contains, or is contained in, its name without regard to letter case (the
\* first such key in profile order); only if no profile key matches, to the
\* value of the first canonical key present in the profile one of whose
\* aliases passes the same two-way test; otherwise to no value. The field
\* 'user_email_addr' resolves to the Email value when Email is in the profile.
C20_LooseMatching ==
  mode = "additional" =>
    /\ LooselyMatchingKeys # {} =>
         user_value = user_data[Least(LooselyMatchingKeys)].value
    /\ (LooselyMatchingKeys = {} /\ LooselyMatchingAliases # {}) =>
         IsProfileValueOf(user_value, field_mappings[Least(LooselyMatchingAliases)].user_key)
    /\ (LooselyMatchingKeys = {} /\ LooselyMatchingAliases = {}) => user_value = None
    /\ (field_name = "user_email_addr" /\ HasKey(user_data, "Email")) =>
         IsProfileValueOf(user_value, "Email")

\* C20 witness: 'user_email_addr' resolved to the Email value
C20_Witness ==
  /\ mode = "additional"
  /\ field_name = "user_email_addr"
  /\ HasKey(user_data, "Email")
  /\ user_value = StrVal("johndoe@example.com")

\* C20 witness of the other direction: a name contained in a profile key,
\* in another letter case, resolved to that key's value
C20_WitnessContained ==
  /\ mode = "additional"
  /\ field_name = "Mail"
  /\ \E j \in 1..Len(user_data) :
        /\ ~PyIn(user_data[j].key, field_name)
        /\ PyIn(PyLower(field_name), PyLower(user_data[j].key))
        /\ user_value = user_data[j].value

\* C20 witness of the alias step: no profile key matches, an alias does
C20_WitnessAlias ==
  /\ mode = "additional"
  /\ LooselyMatchingKeys = {}
  /\ LooselyMatchingAliases # {}
  /\ user_value # None

-----------------------------------------------------------------------------
(* End-to-end and frame claims about process_form, checked under Spec *)

IsDeclaredOp(e) == e.loop = "declared"

\* the driver operations of the declared loop, in the order they were made
DeclaredOps == SelectSeq(driver_log, IsDeclaredOp)

\* the inputs of C21: the profile holds Email only, the entry declares the
\* one field EmailAddress with a locator and of text kind, and there are no
\* additional fields
EmailEntry ==
  /\ pc = "done"
  /\ user_data = << Pair("Email", StrVal("johndoe@example.com")) >>
  /\ Len(entry.fields) = 1
  /\ entry.fields[1].name = "EmailAddress"
  /\ entry.fields[1].xpath # ""
  /\ entry.fields[1].type = "text"
  /\ entry.additional_fields = << >>

\* the page offered an interactable text input for the field
EmailScenario ==
  /\ EmailEntry
  /\ outcomes[1].located
  /\ outcomes[1].interactable
  /\ outcomes[1].tag = "input"

\* C21: in that scenario process_form waits for the element, clears it and
\* types exactly "johndoe@example.com" into it, records the one field as
\* filled and returns True.
C21_EndToEnd ==
  /\ EmailEntry =>
       /\ outcomes[1].value = StrVal("johndoe@example.com")
       /\ DeclaredOps # << >>
       /\ DeclaredOps[1].op = "wait_clickable"
  /\ EmailScenario =>
    /\ outcomes[1].typed = "johndoe@example.com"
    /\ [n \in 1..Len(DeclaredOps) |-> DeclaredOps[n].op] = <<"wait_clickable", "clear", "send_keys">>
    /\ \A n \in 1..Len(DeclaredOps) : DeclaredOps[n].target = entry.fields[1].xpath
    /\ filled_fields = <<"EmailAddress">>
    /\ result = "True"

\* C21 witness: the scenario happened and the call returned True
C21_Witness == EmailScenario /\ result = "True" /\ Len(outcomes) = 1

-----------------------------------------------------------------------------
(* Further claims about the consent handler, checked under SpecPrivacy *)

\* the identifier the strategies of this call know, "" if none
KnownId == LocatePrivacy(entry, pv_in).checkbox_id

\* C22: a strategy ends the cascade only if it performed an activation: when
\* the direct click and the scripted click fail and no identifier is known,
\* the label and frame strategies do not end the cascade and the attribute
\* mutation is attempted.
C22_SuccessNeedsActivation ==
  CascadeRan =>
    /\ pv_out.status = "clicked" => StrategyActs(pv_out.strategy, KnownId)
    /\ (KnownId = "" /\ {1, 2} \subseteq pv_in.failing) =>
         \E k \in 1..Len(pv_out.attempts) : strategies[pv_out.attempts[k]] = "set_checked"

-----------------------------------------------------------------------------
(* The custom dropdown path, checked under SpecDropdown *)

AttemptsNamed(names) == { k \in 1..Len(dd.attempts) : dd.attempts[k].strategy \in names }

PatternNames == { selectors[k] : k \in 1..Len(selectors) }

CustomNames == {"open", "custom_exact", "custom_partial", "custom_last"} \cup PatternNames

NativeNames == { NativeStrategies[k] : k \in 1..Len(NativeStrategies) }

\* the pattern probes of the call, in the order they were made
IsProbe(a) == a.strategy \in PatternNames

ProbesMade == SelectSeq(dd.attempts, IsProbe)

\* the items the call went on with: those of the last pattern probed, if it
\* found any
ItemsUsed ==
  IF ProbesMade = << >> \/ ~ProbesMade[Len(ProbesMade)].ok THEN << >>
  ELSE control.rendered[Len(ProbesMade)]

EqualIgnoringCase(a, b) == PyLower(a) = PyLower(b)

ExactItems(v) == { k \in 1..Len(ItemsUsed) : EqualIgnoringCase(ItemsUsed[k], v) }

ContainingItems(v) == { k \in 1..Len(ItemsUsed) : PyIn(PyLower(v), PyLower(ItemsUsed[k])) }

\* C23: the custom path is entered only when Select(element) failed and never
\* after a native strategy was attempted; it opens the control once, probes
\* the patterns in list order up to the first that finds items, uses those
\* items only, and looks for an exact label among all items before it looks
\* for a containing label.
C23_CustomPath ==
  dd_pc = "done" =>
    /\ AttemptsNamed(CustomNames) # {} =>
         /\ control.tag # "select"
         /\ dd.attempts[1] = Attempt("Select", FALSE)
         /\ AttemptsNamed(NativeNames) = {}
    /\ control.tag = "select" => AttemptsNamed(CustomNames \cup {"Select"}) = {}
    /\ Cardinality(AttemptsNamed({"open"})) <= 1
    /\ AttemptsNamed(PatternNames) # {} =>
         \E k \in AttemptsNamed({"open"}) : dd.attempts[k].ok /\ k < Least(AttemptsNamed(PatternNames))
    /\ \A k \in 1..Len(ProbesMade) :
         /\ ProbesMade[k].strategy = selectors[k]
         /\ ProbesMade[k].ok = (control.rendered[k] # << >>)
         /\ k < Len(ProbesMade) => ~ProbesMade[k].ok
    /\ (ProbesMade # << >> /\ ~ProbesMade[Len(ProbesMade)].ok) => Len(ProbesMade) = Len(selectors)
    /\ (dd.via = "custom" /\ ExactItems(PyStr(desired)) # {}) =>
         dd.selected = Least(ExactItems(PyStr(desired)))
    /\ (dd.via = "custom" /\ ExactItems(PyStr(desired)) = {} /\ ContainingItems(PyStr(desired)) # {}) =>
         dd.selected = Least(ContainingItems(PyStr(desired)))
    /\ dd.via = "custom" => dd.selected \in 1..Len(ItemsUsed)

\* C23 witness: two patterns find items; the first one's items were used, and
\* the exact label was taken although an earlier item contains the value
C23_Witness ==
  /\ dd_pc = "done"
  /\ dd.via = "custom"
  /\ Cardinality({ k \in 1..Len(control.rendered) : control.rendered[k] # << >> }) = 2
  /\ ExactItems(PyStr(desired)) # {}
  /\ \E k \in ContainingItems(PyStr(desired)) : k < Least(ExactItems(PyStr(desired)))
  /\ dd.selected = Least(ExactItems(PyStr(desired)))

\* C23 witness: no pattern found items; all were probed and nothing was
\* selected
C23_WitnessNothingFound ==
  /\ dd_pc = "done"
  /\ Len(ProbesMade) = Len(selectors)
  /\ \A k \in 1..Len(ProbesMade) : ~ProbesMade[k].ok
  /\ dd.selected = 0

OpsNamed(names) == { k \in 1..Len(pv_out.ops) : pv_out.ops[k].op \in names }

DescriptorOps == {"wait_present", "find_id"}

ElementOps == {"is_selected", "scroll", "strategy"}

\* the number of framework-specific selectors probed in this call
ProbedSelectors == Cardinality(OpsNamed({"find_css"}))

\* the declared Privacy descriptor is usable: present, found, with an XPath
DescriptorUsable ==
  /\ PrivacyIndex(entry) # 0
  /\ entry.fields[PrivacyIndex(entry)].found
  /\ entry.fields[PrivacyIndex(entry)].xpath # ""

\* C24: the framework-specific selectors are probed first, in their listed
\* order; the Privacy descriptor is consulted (its XPath, then the id
\* extracted from it) only if none of them finds an element; an element found
\* by a framework-specific selector is the one acted on; and when nothing is
\* found no interaction is made.
C24_ConsentLocateOrder ==
  pv_pc = "done" =>
    /\ ProbedSelectors >= 1
    /\ \A k \in 1..ProbedSelectors :
         /\ pv_out.ops[k] = POp("find_css", vue_privacy_selectors[k])
         /\ k < ProbedSelectors => pv_in.vue # k
    /\ ProbedSelectors < Len(vue_privacy_selectors) => pv_in.vue = ProbedSelectors
    /\ OpsNamed(DescriptorOps) # {} =>
         /\ pv_in.vue = 0
         /\ ProbedSelectors = Len(vue_privacy_selectors)
         /\ DescriptorUsable
         /\ pv_out.ops[ProbedSelectors + 1] =
              POp("wait_present", entry.fields[PrivacyIndex(entry)].xpath)
    /\ \A k \in OpsNamed({"find_id"}) :
         /\ k = ProbedSelectors + 2
         /\ ~pv_in.present
         /\ pv_out.ops[k].target = ExtractId(entry.fields[PrivacyIndex(entry)].xpath)
         /\ pv_out.ops[k].target # ""
    /\ (pv_in.vue = 0 /\ DescriptorUsable) => OpsNamed({"wait_present"}) # {}
    /\ pv_in.vue # 0 =>
         /\ pv_out.source = "vue"
         /\ OpsNamed(DescriptorOps) = {}
         /\ \A k \in OpsNamed(ElementOps) : pv_out.ops[k].target = vue_privacy_selectors[pv_in.vue]
    /\ ~ConsentLocated =>
         /\ OpsNamed(ElementOps) = {}
         /\ pv_out.attempts = << >>

\* C24 witness: the second framework-specific selector found the element
\* although a usable Privacy descriptor was declared, and it was clicked
C24_Witness ==
  /\ pv_pc = "done"
  /\ pv_in.vue = 2
  /\ DescriptorUsable
  /\ pv_out.status = "clicked"
  /\ OpsNamed(DescriptorOps) = {}

\* C24 witness: no framework-specific element, the XPath wait failed and the
\* extracted id found the element
C24_WitnessById ==
  /\ pv_pc = "done"
  /\ pv_out.source = "id"
  /\ Cardinality(OpsNamed({"find_id"})) = 1
  /\ pv_out.status = "clicked"

\* C24 witness: nothing found by any means, nothing done
C24_WitnessNothing ==
  /\ pv_pc = "done"
  /\ DescriptorUsable
  /\ pv_out.source = "not_found"
  /\ OpsNamed({"find_id"}) # {}

\* what the resolution rules give each declared name under each profile:
\* a table over profiles and names, in which no page appears
DeclaredResolution ==
  [p \in FormProfiles, name \in { f.name : f \in DeclaredDescriptors } |->
     ResolveDeclared(name, p)]

\* the same for the names of additional fields
AdditionalResolution ==
  [p \in FormProfiles, name \in { a.field_name : a \in AdditionalDescriptors } |->
     AdditionalValue(name, p)]

\* the value the tables give the field an outcome record is about; None
\* where the resolution is not reached (Submit with a locator, additional
\* field with no locator)
ResolvedFor(rec) ==
  IF rec.loop = "declared"
    THEN IF SubmitSkipped(entry.fields[rec.i]) THEN None
         ELSE DeclaredResolution[user_data, entry.fields[rec.i].name]
  ELSE IF entry.additional_fields[rec.i].xpath = "" THEN None
  ELSE AdditionalResolution[user_data, entry.additional_fields[rec.i].field_name]

\* C25: a field that resolves to no value gets no driver operation at all,
\* and the value a field resolves to is a function of its name, the profile
\* and the alias table, whatever the page did and whatever happened to the
\* fields before it.
C25_ResolutionIndependentOfPage ==
  \A k \in 1..Len(outcomes) :
    /\ outcomes[k].value = ResolvedFor(outcomes[k])
    /\ outcomes[k].value = None => OpsOf(outcomes[k].loop, outcomes[k].i) = {}

\* C25 witness: a field was skipped for want of a value, with no operation,
\* after an earlier field had failed on the page
C25_Witness ==
  /\ pc = "done"
  /\ \E k \in 2..Len(outcomes) :
       /\ outcomes[k].outcome = "skipped_no_match"
       /\ OpsOf(outcomes[k].loop, outcomes[k].i) = {}
       /\ outcomes[k - 1].outcome \in {"element_not_found", "interaction_failed"}

\* C25 witness: the same field of the same entry resolved to its value both
\* when the page offered the element and when it did not
C25_WitnessValueKept ==
  /\ pc = "done"
  /\ \E k \in 1..Len(outcomes) :
       /\ outcomes[k].outcome = "element_not_found"
       /\ outcomes[k].value = StrVal("johndoe@example.com")

-----------------------------------------------------------------------------
(* Ordering and notes of the session loop, checked under SpecSession *)

Returns == {"True", "False"}

\* the event closes its entry: a skip, a caught exception, the answered
\* prompt in interactive mode, the return of process_form in batch mode
ClosesEntry(e) ==
  \/ e.op \in {"skip", "caught"}
  \/ program = "test_forms" /\ e.op = "input" /\ e.result \in Typed
  \/ program = "process_forms" /\ e.op = "process_form" /\ e.result \in Returns

\* C26: within an entry, navigation comes before process_form and the prompt
\* comes only after process_form has returned; and nothing is done for entry
\* n+1 before entry n was completed, skipped or abandoned by an exception.
C26_PerEntryOrdering ==
  /\ \A k \in 1..Len(events) :
       /\ events[k].op = "get" =>
            k > 1 /\ events[k - 1].op = "accept" /\ events[k - 1].index = events[k].index
       /\ events[k].op = "process_form" =>
            /\ k > 1
            /\ events[k - 1] = Ev("get", events[k].index, json_data[events[k].index].url)
       /\ events[k].op = "input" =>
            /\ program = "test_forms"
            /\ k > 1
            /\ events[k - 1].op = "process_form"
            /\ events[k - 1].index = events[k].index
            /\ events[k - 1].result \in Returns
  /\ \A a, b \in 1..Len(events) :
       (a < b /\ events[a].index # 0 /\ events[b].index # 0) =>
          events[a].index <= events[b].index
  /\ \A k \in 1..(Len(events) - 1) :
       (events[k].index # 0 /\ events[k + 1].index # events[k].index /\ events[k + 1].index # 0) =>
          /\ events[k + 1].index = events[k].index + 1
          /\ ClosesEntry(events[k])

\* C26 witness: two entries were processed in full in interactive mode
C26_Witness ==
  /\ program = "test_forms"
  /\ s_pc = "returned"
  /\ Len(user_notes) = 2
  /\ \E k \in 1..Len(events) :
       /\ Len(events) >= k + 7
       /\ [j \in 1..8 |-> events[k + j - 1].op] =
            <<"accept", "get", "process_form", "input", "accept", "get", "process_form", "input">>
       /\ [j \in 1..8 |-> events[k + j - 1].index] = <<1, 1, 1, 1, 2, 2, 2, 2>>

\* C26 witness: the first entry was abandoned at navigation and the second
\* began only after the exception was caught
C26_WitnessAbandoned ==
  /\ s_pc = "returned"
  /\ \E k \in 1..(Len(events) - 1) :
       /\ events[k].op = "caught"
       /\ events[k].index = 1
       /\ events[k + 1].op = "accept"
       /\ events[k + 1].index = 2

-----------------------------------------------------------------------------
(* Checkbox fields with the value false, checked under Spec *)

\* the record is of a checkbox-typed declared or additional field whose
\* resolved value is the boolean false and whose element was located
FalseCheckbox(rec) ==
  /\ rec.value = BoolVal(FALSE)
  /\ rec.located
  /\ PyLower(IF rec.loop = "declared" THEN entry.fields[rec.i].type
             ELSE entry.additional_fields[rec.i].element_type) = "checkbox"

\* C27: a checkbox field whose resolved value is the boolean false is never
\* left checked after process_form has handled it.
C27_FalseNeverChecked ==
  \A k \in 1..Len(outcomes) : FalseCheckbox(outcomes[k]) => ~outcomes[k].checked

-----------------------------------------------------------------------------
(* Additional fields without a name, checked under SpecResolve *)

\* an additional descriptor whose field_name is empty or absent: line 123
\* reads it as ''
Nameless == Additional("", "//input[@name='q']", "input")

\* C28: an additional field whose field_name is empty or absent resolves to
\* no profile value and is passed over before the element wait, for every
\* non-empty profile.
C28_NamelessResolvesToNothing ==
  (mode = "additional" /\ field_name = Nameless.field_name /\ user_data # << >>) =>
     /\ user_value = None
     /\ ~AdditionalAttempted(Nameless, user_value)

-----------------------------------------------------------------------------
(* The notes returned by test_forms, checked under SpecSession *)

\* entry n was not skipped and its navigation, its form processing and its
\* prompt completed without an exception
Completed(n) ==
  /\ ~Skippable(json_data[n])
  /\ \E k \in EventsWith("get") : events[k].index = n /\ events[k].result = json_data[n].url
  /\ \E k \in EventsWith("process_form") : events[k].index = n /\ events[k].result \in Returns
  /\ \E k \in EventsWith("input") : events[k].index = n /\ events[k].result \in Typed

\* C29: the notes returned by test_forms hold exactly one record per entry
\* that was not skipped and whose navigation, form processing and prompt
\* completed without an exception, in entry order; their number is the
\* number of such entries.
C29_NotesPerCompletedEntry ==
  (program = "test_forms" /\ s_pc = "returned") =>
     /\ Len(user_notes) = Cardinality({ n \in 1..Len(json_data) : Completed(n) })
     /\ NotesAreAnsweredPrompts

=============================================================================
